---- MODULE Spec2Model ----
(***************************************************************************)
(* Model of the incremental synchronisation engine of collector.py:        *)
(* the DB-to-DB worker (run_sync_mssql_async), the foreign-DB worker       *)
(* (run_sync_firebird_async), the watermark cache (rectime_cache) and the  *)
(* destination tables they write.  Timestamps are small naturals; None is  *)
(* NoneT and datetime(1900, 1, 1) is Sentinel.                             *)
(***************************************************************************)
EXTENDS Integers, Sequences, FiniteSets, TLC

\* ---------------------------------------------------------------- bounds
MaxTs == 3          \* RECTIME values are 1..MaxTs
MaxFaults == 2      \* I/O calls that fail in one behaviour
MaxRestarts == 1    \* process restarts in one behaviour
MaxOob == 1         \* rows written to a destination by somebody else
MaxCalls == 4       \* send_telegram_message calls in one behaviour
MaxTime == 4        \* the rate limiter is watched for MaxTime seconds
MaxFileRows == 2    \* rows the writer appends to the current-day file
MaxTicks == 2       \* clock advances seen by the file-ingest worker
MaxTcFaults == 2    \* failing I/O calls of the file-ingest worker
MaxRun == 3         \* staleness checks counted while the observed time is unchanged
MaxFails == 8       \* failed cycles in a row of one worker loop
MaxConns == 4       \* connections opened in one behaviour
MaxSyncs == 3       \* successful cycles of the watched loop in one behaviour
MaxRetries == 3     \* failed attempts in a row of one connect_to_mssql_async call

\* ------------------------------------------------------------- constants
NoneT == 0 - 1      \* Python None
Sentinel == 0       \* datetime(1900, 1, 1)

Workers == {"m1", "m2", "f1", "n1", "g1"}
Tables == {"A", "B", "C", "T"}
TS == 1..MaxTs

\* kind of a job: sync_mssql entries run run_sync_mssql_async,
\* sync_firebird entries run run_sync_firebird_async
kind(w) == IF w \in {"f1", "g1"} THEN "firebird" ELSE "mssql"

\* get_last_sync_time_async(cursor, table, use_cache=True): jobs n1 and g1 are
\* the same workers run with use_cache=False
UseCache(w) == w \notin {"n1", "g1"}

VARIABLES
    jobs,        \* configured jobs (CONFIG['sync_mssql'], CONFIG['sync_firebird'])
    dst,         \* job -> destination table key (target_table)
    source,      \* job -> RECTIME values of the rows of its source table
    dest,        \* table -> RECTIME values of the committed rows
    cache,       \* rectime_cache: table -> rectime or NoneT
    pc,          \* job -> position in the worker loop
    max_rectime, \* job -> local watermark of the cycle (max_rectime / last_sync_time)
    rows,        \* job -> fetched batch (rows_to_insert / data), a sequence
    conn,        \* job -> destination connection is open
    status,      \* task_status: job -> "absent" | "healthy" | "unhealthy"
    inserted,    \* job -> sequence of the rows the job committed, in insert order
    cache0,      \* job -> value of the cache entry when the cycle started
    log0,        \* job -> Len(inserted) when the cycle started
    src0,        \* job -> source rows at the time of the delta fetch
    dupSeen,     \* job -> the batch insert of this cycle hit a duplicate key
    faults,      \* failed I/O calls so far
    restarts,    \* process restarts so far
    oob          \* out-of-band destination writes so far

syncVars == <<jobs, dst, source, dest, cache, pc, max_rectime, rows, conn,
              status, inserted, cache0, log0, src0, dupSeen, faults, restarts, oob>>

VARIABLES
    max_messages,     \* TelegramRateLimiter.max_messages
    window_seconds,   \* TelegramRateLimiter.window_seconds
    cooldown_seconds, \* TelegramRateLimiter.cooldown_seconds
    clock,            \* datetime.now() seen by the rate limiter, in seconds
    message_times,    \* TelegramRateLimiter.message_times
    cooldown_until,   \* TelegramRateLimiter.cooldown_until or NoneT
    suppressed_count, \* TelegramRateLimiter.suppressed_count
    posting,          \* a send_telegram_message call is inside session.post
    admitted,         \* instants at which can_send returned True
    calls,            \* send_telegram_message calls so far
    denied_at,        \* instant of the denial that began the cooldown, or NoneT
    released          \* suppressed count logged when a cooldown ended, or NoneT

gateVars == <<max_messages, window_seconds, cooldown_seconds, clock, message_times,
              cooldown_until, suppressed_count, posting, admitted, calls,
              denied_at, released>>

VARIABLES
    now,               \* datetime.now() of the file-ingest worker, seconds since 1900-01-01
    share_up,          \* the watched directory can be listed
    fmtime,            \* file -> st_mtime
    frows,             \* file -> check_datetime values of its rows
    tc_pc,             \* position of run_tc2_processor_async in its loop
    tc_conn,           \* mssql_conn is not None
    last_db_record,    \* the worker's watermark, NoneT before the first connect
    network_available, \* network_available
    files_last_check,  \* files_last_check: file -> instant or NoneT
    files_to_process,  \* files selected in this cycle and not processed yet
    max_processed_time,\* max_processed_time
    tc_status,         \* task_status["tc2_processor"]
    tc_inserted,       \* rows the worker committed, in insert order
    tc_faults,         \* failed I/O calls so far
    ticks              \* clock advances so far

tcVars == <<now, share_up, fmtime, frows, tc_pc, tc_conn, last_db_record,
            network_available, files_last_check, files_to_process,
            max_processed_time, tc_status, tc_inserted, tc_faults, ticks>>

VARIABLES
    notification_timeout, \* CONFIG['notification_timeout'], in seconds
    sent_notifications,   \* table -> <<alert sent, last observed update time>>
    note_pc,              \* position of the task inside check_and_notify_async
    note_table,           \* table_name of the check in progress or last made
    note_obs,             \* last_update_time of the check in progress or last made
    held,                 \* mutexes the task inside check_and_notify_async holds
    check_parity,         \* flips at every call of check_and_notify_async
    run_obs,              \* table -> timestamp observed by the latest check
    run_checks,           \* table -> stale checks since the observed timestamp changed
    run_handed            \* table -> messages handed over since it changed

noteVars == <<notification_timeout, sent_notifications, note_pc, note_table, note_obs,
              held, check_parity, run_obs, run_checks, run_handed>>

VARIABLES
    shutdown,      \* shutdown_event.is_set()
    lpc,           \* task -> position in its worker loop
    lconn,         \* task -> its destination connection is not None
    task_status,   \* task_status: task -> "absent" | "healthy" | "unhealthy"
    dir_ok,        \* the watched directory is reachable
    late           \* task -> one of its waits outlasted the shutdown request

lifeVars == <<shutdown, lpc, lconn, task_status, dir_ok, late>>

VARIABLES
    file_check_interval   \* config.get('file_check_interval', 3600), in seconds

cfgVars == <<file_check_interval>>

VARIABLES
    retry_delay,   \* task -> retry_delay of its worker loop, in seconds
    bpc,           \* task -> position in the loop: "cycle", "handler", "backoff", "sleep", "done"
    brun,          \* the task whose loop is watched
    failed_run,    \* task -> failed cycles since its latest successful cycle
    waited,        \* task -> timeout of the backoff wait of its latest failed cycle, or NoneT
    recovered,     \* task -> a successful cycle has followed a failed one
    last_sync,     \* task -> task_status[...]['last_sync']: an instant or NoneT
    synced_at,     \* task -> instant of its most recent successful cycle, or NoneT
    syncs          \* successful cycles so far; cycle n completes at instant n

backVars == <<retry_delay, bpc, brun, failed_run, waited, recovered,
              last_sync, synced_at, syncs>>

VARIABLES
    source_conn,        \* task -> source_conn of the DB-to-DB worker: a connection or NoneT
    target_conn,        \* task -> target_conn / mssql_conn: a connection or NoneT
    active_connections, \* active_connections: the registered connections
    open_conns,         \* connections opened and not closed yet
    closed_conns,       \* connections whose close() was called
    next_conn,          \* connections created so far; connection n is the n-th one
    cpc,                \* task -> position in the loop
    raised,             \* task -> the exception its handler is handling, or "none"
    last_error,         \* task -> task_status[...]['last_error'], or "none"
    held_at_raise       \* task -> connections it held when its latest exception was raised

connVars == <<source_conn, target_conn, active_connections, open_conns, closed_conns,
              next_conn, cpc, raised, last_error, held_at_raise>>

VARIABLES
    source_table,  \* job -> sync_config['source_table'] of a DB-to-DB job
    mssql_table,   \* job -> sync_config['target_table'] of a foreign-DB job
    named_status,  \* task_status: key -> "absent" | "healthy" | "unhealthy"
    writers        \* key -> jobs that wrote the entry

nameVars == <<source_table, mssql_table, named_status, writers>>

VARIABLES
    lock_owner,    \* mutex -> the thread that holds it, or "free"
    prog           \* thread -> the steps left of the operation it is running

lockVars == <<lock_owner, prog>>

VARIABLES
    retries,       \* task -> retries of its connect_to_mssql_async call in progress
    delay          \* task -> delay of that call, in seconds

tryVars == <<retries, delay>>

VARIABLES
    denied_since,  \* can_send calls denied since the cooldown in force began
    forced,        \* the latest send_telegram_message call had force=True
    outcome        \* of the latest call: "none", "suppressed", "posting", "sent", "failed"

sendVars == <<denied_since, forced, outcome>>

VARIABLES
    wm0            \* last_db_record when the files of the cycle were selected

cycleVars == <<wm0>>

extVars == <<cfgVars, backVars, connVars, nameVars, lockVars, tryVars, sendVars,
             cycleVars>>

vars == <<syncVars, gateVars, tcVars, noteVars, lifeVars, extVars>>

\* --------------------------------------------------------------- helpers
Max(S) == CHOOSE x \in S : \A y \in S : y <= x
Min(S) == CHOOSE x \in S : \A y \in S : x <= y

RECURSIVE SortAsc(_)
\* ORDER BY [RECTIME] ASC
SortAsc(S) == IF S = {} THEN << >> ELSE <<Min(S)>> \o SortAsc(S \ {Min(S)})

RECURSIVE Perms(_)
\* a result set without ORDER BY: any order of the rows
Perms(S) == IF S = {} THEN { << >> }
            ELSE UNION { { <<x>> \o p : p \in Perms(S \ {x}) } : x \in S }

Range(s) == { s[i] : i \in 1..Len(s) }

SelectIfAllNew(s, D) == IF Range(s) \cap D = {} THEN s ELSE << >>

RECURSIVE SelectNotIn(_, _)
\* the rows of a batch that a row-by-row insert commits: those whose key is free
SelectNotIn(s, D) ==
    IF s = << >> THEN << >>
    ELSE IF Head(s) \in D THEN SelectNotIn(Tail(s), D)
         ELSE <<Head(s)>> \o SelectNotIn(Tail(s), D \cup {Head(s)})

IsAscending(s) == \A i, j \in 1..Len(s) : i < j => s[i] < s[j]

\* WHERE [RECTIME] > ?
Delta(S, wm) == { r \in S : r > wm }

\* SELECT MAX(RECTIME) FROM table : None on an empty table
MaxRectimeOf(D) == IF D = {} THEN NoneT ELSE Max(D)

LastRowRectimeFirst(batch) == batch[1]

\* rows_to_insert[-1][3]
LastRowRectime(batch) == batch[Len(batch)]

ShouldCacheAlways(last) == TRUE

\* get_last_sync_time_async: "if last_sync_time:" guards set_cached_rectime
ShouldCache(last) == last # NoneT

\* max_rectime computed by the loop of insert_into_mssql_async
BatchMaxRectime(batch) == Max(Range(batch))

\* ------------------------------------------------------------------ Init
InitSync(J, d, f) ==
    /\ jobs = J
    /\ dst = d
    /\ source = [w \in Workers |-> {}]
    /\ dest = [t \in Tables |-> {}]
    /\ cache = [t \in Tables |-> NoneT]
    /\ pc = [w \in Workers |-> "start"]
    /\ max_rectime = [w \in Workers |-> NoneT]
    /\ rows = [w \in Workers |-> << >>]
    /\ conn = [w \in Workers |-> FALSE]
    /\ status = [w \in Workers |-> "absent"]
    /\ inserted = [w \in Workers |-> << >>]
    /\ cache0 = [w \in Workers |-> NoneT]
    /\ log0 = [w \in Workers |-> 0]
    /\ src0 = [w \in Workers |-> {}]
    /\ dupSeen = [w \in Workers |-> FALSE]
    /\ faults = f
    /\ restarts = 0
    /\ oob = 0

\* the rate limiter as constructed at import time
InitGate(m, ws, cs) ==
    /\ max_messages = m
    /\ window_seconds = ws
    /\ cooldown_seconds = cs
    /\ clock = 0
    /\ message_times = << >>
    /\ cooldown_until = NoneT
    /\ suppressed_count = 0
    /\ posting = FALSE
    /\ admitted = << >>
    /\ calls = 0
    /\ denied_at = NoneT
    /\ released = NoneT

\* CONFIG defaults: rate_limit_messages, rate_limit_window, rate_limit_cooldown
DefaultMessages == 5
DefaultWindow == 60
DefaultCooldown == 300

\* the table whose staleness is watched
NoteTables == {"A"}

\* sent_notifications has no entry for the table
NoEntry == <<FALSE, NoneT>>

\* module globals of the notification state, before the first check
InitNote(nt) ==
    /\ notification_timeout = nt
    /\ sent_notifications = [t \in NoteTables |-> NoEntry]
    /\ note_pc = "idle"
    /\ note_table = "A"
    /\ note_obs = NoneT
    /\ held = {}
    /\ check_parity = FALSE
    /\ run_obs = [t \in NoteTables |-> NoneT]
    /\ run_checks = [t \in NoteTables |-> 0]
    /\ run_handed = [t \in NoteTables |-> 0]

\* CONFIG.get('notification_timeout', 7200)
DefaultNotificationTimeout == 7200

\* the worker tasks async_main creates
Tasks == {"mssql", "firebird", "tc2"}

\* the tasks are created; none has entered its loop
InitLife ==
    /\ shutdown = FALSE
    /\ lpc = [w \in Tasks |-> "test"]
    /\ lconn = [w \in Tasks |-> FALSE]
    /\ task_status = [w \in Tasks |-> "absent"]
    /\ dir_ok = TRUE
    /\ late = [w \in Tasks |-> FALSE]

\* ------------------------------------------------- file-ingest constants
Day == 86400               \* seconds of a calendar day (.date())
MinRecheck == 300          \* "time_since_last_check >= 300"
TwoHours == 7200           \* "time_since_modification < 2" (hours)
FileCheckInterval == 3600  \* config.get('file_check_interval', 3600)
MonitorInterval == 30      \* config.get('monitor_interval', 30)
DaysToSearch == 30         \* config.get('days_to_search', 30)
Today == 40                \* day number of the day the model runs in
Noon == 43200              \* the model starts at 12:00

\* the file-ingest job block as read at the top of run_tc2_processor_async
InitCfg(fci) == file_check_interval = fci

\* "retry_delay = 1" before the loop of each worker
InitBack(w) ==
    /\ retry_delay = [t \in Tasks |-> 1]
    /\ bpc = [t \in Tasks |-> "cycle"]
    /\ brun = w
    /\ failed_run = [t \in Tasks |-> 0]
    /\ waited = [t \in Tasks |-> NoneT]
    /\ recovered = [t \in Tasks |-> FALSE]
    /\ last_sync = [t \in Tasks |-> NoneT]
    /\ synced_at = [t \in Tasks |-> NoneT]
    /\ syncs = 0

\* "source_conn = None", "target_conn = None" before the loop, and the empty
\* list active_connections
InitConn ==
    /\ source_conn = [t \in Tasks |-> NoneT]
    /\ target_conn = [t \in Tasks |-> NoneT]
    /\ active_connections = {}
    /\ open_conns = {}
    /\ closed_conns = {}
    /\ next_conn = 0
    /\ cpc = [t \in Tasks |-> "top"]
    /\ raised = [t \in Tasks |-> "none"]
    /\ last_error = [t \in Tasks |-> "none"]
    /\ held_at_raise = [t \in Tasks |-> {}]

\* table names are sequences of pieces, so that 'dbo.X' and 'X' differ by the
\* piece "dbo."
NameX == <<"X">>
NameY == <<"Y">>
NameDboX == <<"dbo.", "X">>

\* the four configured jobs whose registry keys are watched
NamedJobs == {"m1", "m2", "f1", "g1"}

\* mssql_table.replace('dbo.', '')
ReplaceDbo(name) == SelectSeq(name, LAMBDA piece : piece # "dbo.")

\* task_name = f"mssql_{source_table}" and
\* task_name = f"firebird_{mssql_table.replace('dbo.', '')}"
TaskName(w) ==
    IF kind(w) = "mssql" THEN <<"mssql_">> \o source_table[w]
    ELSE <<"firebird_">> \o ReplaceDbo(mssql_table[w])

\* every key a configuration of the jobs can produce
Keys == { <<pre>> \o n : pre \in {"mssql_", "firebird_"}, n \in {NameX, NameY} }

\* task_status = {} at import time; st and mt are the configured names
InitNames(st, mt) ==
    /\ source_table = st
    /\ mssql_table = mt
    /\ named_status = [k \in Keys |-> "absent"]
    /\ writers = [k \in Keys |-> {}]

\* the asyncio tasks of the three workers and the thread that runs Flask
Threads == Tasks \cup {"flask"}

\* the asyncio.Lock objects of the module
Locks == {"notifications_lock", "rate_limiter_lock", "rectime_cache_lock",
          "task_status_lock", "connections_lock"}

\* the locks as async_main creates them, and no operation running
InitLocks ==
    /\ lock_owner = [l \in Locks |-> "free"]
    /\ prog = [t \in Threads |-> << >>]

\* retry_with_backoff_async: "retries = 0", "delay = base_delay" with
\* base_delay=1 as connect_to_mssql_async passes it
BaseDelay == 1

InitTry ==
    /\ retries = [t \in Tasks |-> 0]
    /\ delay = [t \in Tasks |-> BaseDelay]

\* no message was handed to send_telegram_message yet
InitSend ==
    /\ denied_since = 0
    /\ forced = FALSE
    /\ outcome = "none"

\* no cycle of the file-ingest worker has selected files yet
InitCycle == wm0 = NoneT

InitExt ==
    /\ InitCfg(FileCheckInterval)
    /\ InitBack("mssql")
    /\ InitConn
    /\ InitLocks
    /\ InitTry
    /\ InitSend
    /\ InitCycle
    /\ InitNames([w \in NamedJobs |-> IF w = "m1" THEN NameX ELSE NameY],
                 [w \in NamedJobs |-> IF w = "f1" THEN NameDboX ELSE NameY])

\* the two workbooks in the watched directory: yesterday's and today's
Files == {"old", "cur"}

\* the ISO date in the file name
FileDate(f) == IF f = "old" THEN Today - 1 ELSE Today

\* .date() of an instant
DateOf(t) == t \div Day

\* check_datetime values a file can hold
FileTs(f) == { FileDate(f) * Day + 100 * k : k \in 1..MaxFileRows }

InitTc ==
    /\ now = Today * Day + Noon
    /\ share_up = TRUE
    /\ fmtime = [f \in Files |-> FileDate(f) * Day + 100]
    /\ frows = [f \in Files |-> IF f = "old" THEN {FileDate(f) * Day + 100} ELSE {}]
    /\ tc_pc = "start"
    /\ tc_conn = FALSE
    /\ last_db_record = NoneT
    /\ network_available = FALSE
    /\ files_last_check = [f \in Files |-> NoneT]
    /\ files_to_process = << >>
    /\ max_processed_time = NoneT
    /\ tc_status = "absent"
    /\ tc_inserted = << >>
    /\ tc_faults = 0
    /\ ticks = 0

SeparateDst == [w \in Workers |-> IF w = "f1" THEN "B" ELSE "A"]
SharedDst == [w \in Workers |-> "A"]
PairDst == [w \in Workers |-> IF UseCache(w) THEN "A" ELSE "C"]

\* one configured job, of either kind
Init ==
    /\ InitTc
    /\ \E w \in {"m1", "f1"} : InitSync({w}, SeparateDst, 0)
    /\ InitGate(DefaultMessages, DefaultWindow, DefaultCooldown)
    /\ InitNote(DefaultNotificationTimeout)
    /\ InitLife
    /\ InitExt

\* ----------------------------------------------------------- environment
\* the upstream writer appends a row with a greater timestamp
SourceAppend(w) ==
    /\ w \in jobs
    /\ \E r \in TS :
        /\ \A x \in source[w] : x < r
        /\ source' = [source EXCEPT ![w] = @ \cup {r}]
    /\ UNCHANGED <<gateVars, tcVars, noteVars, lifeVars, extVars>>
    /\ UNCHANGED <<jobs, dst, dest, cache, pc, max_rectime, rows, conn, status,
                   inserted, cache0, log0, src0, dupSeen, faults, restarts, oob>>

\* somebody else writes a row into a destination table
DestWrite(t) ==
    /\ oob < MaxOob
    /\ \E w \in jobs : dst[w] = t
    /\ \E r \in TS \ dest[t] :
        dest' = [dest EXCEPT ![t] = @ \cup {r}]
    /\ oob' = oob + 1
    /\ UNCHANGED <<gateVars, tcVars, noteVars, lifeVars, extVars>>
    /\ UNCHANGED <<jobs, dst, source, cache, pc, max_rectime, rows, conn, status,
                   inserted, cache0, log0, src0, dupSeen, faults, restarts>>

\* the process is killed and started again: module globals are re-created
Restart ==
    /\ restarts < MaxRestarts
    /\ restarts' = restarts + 1
    /\ cache' = [t \in Tables |-> NoneT]
    /\ pc' = [w \in Workers |-> "start"]
    /\ max_rectime' = [w \in Workers |-> NoneT]
    /\ rows' = [w \in Workers |-> << >>]
    /\ conn' = [w \in Workers |-> FALSE]
    /\ status' = [w \in Workers |-> "absent"]
    /\ cache0' = [w \in Workers |-> NoneT]
    /\ log0' = [w \in Workers |-> Len(inserted[w])]
    /\ src0' = [w \in Workers |-> {}]
    /\ dupSeen' = [w \in Workers |-> FALSE]
    /\ UNCHANGED <<gateVars, tcVars, noteVars, lifeVars, extVars>>
    /\ UNCHANGED <<jobs, dst, source, dest, inserted, faults, oob>>

\* ----------------------------------------------------- the worker loops
\* top of the loop: connect if needed, then get_last_sync_time_async looks
\* into the cache (get_cached_rectime)
Begin(w) ==
    /\ w \in jobs
    /\ pc[w] = "start"
    /\ conn' = [conn EXCEPT ![w] = TRUE]
    /\ cache0' = [cache0 EXCEPT ![w] = cache[dst[w]]]
    /\ log0' = [log0 EXCEPT ![w] = Len(inserted[w])]
    /\ dupSeen' = [dupSeen EXCEPT ![w] = FALSE]
    /\ IF UseCache(w) /\ cache[dst[w]] # NoneT
       THEN /\ max_rectime' = [max_rectime EXCEPT ![w] = cache[dst[w]]]
            /\ pc' = [pc EXCEPT ![w] = "fetch"]
       ELSE /\ max_rectime' = max_rectime
            /\ pc' = [pc EXCEPT ![w] = "query_max"]
    /\ UNCHANGED <<gateVars, tcVars, noteVars, lifeVars, extVars>>
    /\ UNCHANGED <<jobs, dst, source, dest, cache, rows, status, inserted,
                   src0, faults, restarts, oob>>

\* get_last_sync_time_async: SELECT MAX(RECTIME) on the destination; an
\* exception is swallowed and the sentinel returned
QueryMax(w) ==
    /\ w \in jobs
    /\ pc[w] = "query_max"
    /\ \/ LET last == MaxRectimeOf(dest[dst[w]]) IN
          /\ max_rectime' = [max_rectime EXCEPT ![w] =
                                IF last # NoneT THEN last ELSE Sentinel]
          /\ pc' = [pc EXCEPT ![w] = IF ShouldCache(last) THEN "store_wm" ELSE "fetch"]
          /\ faults' = faults
       \/ /\ faults < MaxFaults
          /\ faults' = faults + 1
          /\ max_rectime' = [max_rectime EXCEPT ![w] = Sentinel]
          /\ pc' = [pc EXCEPT ![w] = "fetch"]
    /\ UNCHANGED <<gateVars, tcVars, noteVars, lifeVars, extVars>>
    /\ UNCHANGED <<jobs, dst, source, dest, cache, rows, conn, status, inserted,
                   cache0, log0, src0, dupSeen, restarts, oob>>

\* get_last_sync_time_async: a non-null MAX is stored in the cache
StoreWm(w) ==
    /\ w \in jobs
    /\ pc[w] = "store_wm"
    /\ cache' = [cache EXCEPT ![dst[w]] = max_rectime[w]]
    /\ pc' = [pc EXCEPT ![w] = "fetch"]
    /\ UNCHANGED <<gateVars, tcVars, noteVars, lifeVars, extVars>>
    /\ UNCHANGED <<jobs, dst, source, dest, max_rectime, rows, conn, status,
                   inserted, cache0, log0, src0, dupSeen, faults, restarts, oob>>

\* run_sync_mssql_async: MAX(RECTIME) of the source, the staleness check and
\* the delta query; any of them may raise
MssqlFetch(w) ==
    /\ w \in jobs /\ kind(w) = "mssql"
    /\ pc[w] = "fetch"
    /\ \/ /\ rows' = [rows EXCEPT ![w] = SortAsc(Delta(source[w], max_rectime[w]))]
          /\ src0' = [src0 EXCEPT ![w] = source[w]]
          /\ pc' = [pc EXCEPT ![w] = "insert"]
          /\ faults' = faults
       \/ /\ faults < MaxFaults
          /\ faults' = faults + 1
          /\ pc' = [pc EXCEPT ![w] = "fail"]
          /\ UNCHANGED <<rows, src0>>
    /\ UNCHANGED <<gateVars, tcVars, noteVars, lifeVars, extVars>>
    /\ UNCHANGED <<jobs, dst, source, dest, cache, max_rectime, conn, status,
                   inserted, cache0, log0, dupSeen, restarts, oob>>

\* run_sync_mssql_async: executemany and commit of the batch.  A duplicate key
\* makes executemany raise; the handler closes the connection, which discards
\* the open transaction.  commit may also raise before or after the server
\* committed.  An empty batch goes straight to update_task_status.
MssqlInsert(w) ==
    /\ w \in jobs /\ kind(w) = "mssql"
    /\ pc[w] = "insert"
    /\ LET t == dst[w] IN
       IF rows[w] = << >>
       THEN /\ status' = [status EXCEPT ![w] = "healthy"]
            /\ pc' = [pc EXCEPT ![w] = "sleep"]
            /\ UNCHANGED <<dest, inserted, dupSeen, faults>>
       ELSE IF Range(rows[w]) \cap dest[t] # {}
       THEN /\ dupSeen' = [dupSeen EXCEPT ![w] = TRUE]
            /\ pc' = [pc EXCEPT ![w] = "fail"]
            /\ UNCHANGED <<dest, inserted, status, faults>>
       ELSE \/ /\ dest' = [dest EXCEPT ![t] = @ \cup Range(rows[w])]
               /\ inserted' = [inserted EXCEPT ![w] = @ \o rows[w]]
               /\ pc' = [pc EXCEPT ![w] = "set_cache"]
               /\ UNCHANGED <<status, dupSeen, faults>>
            \/ /\ faults < MaxFaults
               /\ faults' = faults + 1
               /\ pc' = [pc EXCEPT ![w] = "fail"]
               /\ UNCHANGED <<dest, inserted, status, dupSeen>>
            \/ /\ faults < MaxFaults
               /\ faults' = faults + 1
               /\ dest' = [dest EXCEPT ![t] = @ \cup Range(rows[w])]
               /\ inserted' = [inserted EXCEPT ![w] = @ \o rows[w]]
               /\ pc' = [pc EXCEPT ![w] = "fail"]
               /\ UNCHANGED <<status, dupSeen>>
    /\ UNCHANGED <<gateVars, tcVars, noteVars, lifeVars, extVars>>
    /\ UNCHANGED <<jobs, dst, source, cache, max_rectime, rows, conn,
                   cache0, log0, src0, restarts, oob>>

\* run_sync_mssql_async after the commit: set_cached_rectime with the last
\* row of the batch, update_task_status(healthy=True)
MssqlSetCache(w) ==
    /\ w \in jobs /\ kind(w) = "mssql"
    /\ pc[w] = "set_cache"
    /\ cache' = [cache EXCEPT ![dst[w]] = LastRowRectime(rows[w])]
    /\ status' = [status EXCEPT ![w] = "healthy"]
    /\ pc' = [pc EXCEPT ![w] = "sleep"]
    /\ UNCHANGED <<gateVars, tcVars, noteVars, lifeVars, extVars>>
    /\ UNCHANGED <<jobs, dst, source, dest, max_rectime, rows, conn, inserted,
                   cache0, log0, src0, dupSeen, faults, restarts, oob>>

\* run_sync_firebird_async: the staleness check may raise; the fetch of
\* _get_firebird_data_sync has no ORDER BY and returns (None, None) on error
FirebirdFetch(w) ==
    /\ w \in jobs /\ kind(w) = "firebird"
    /\ pc[w] = "fetch"
    /\ \/ /\ \E batch \in Perms(Delta(source[w], max_rectime[w])) :
                rows' = [rows EXCEPT ![w] = batch]
          /\ src0' = [src0 EXCEPT ![w] = source[w]]
          /\ pc' = [pc EXCEPT ![w] = "insert"]
          /\ faults' = faults
       \/ /\ faults < MaxFaults
          /\ faults' = faults + 1
          /\ rows' = [rows EXCEPT ![w] = << >>]
          /\ src0' = [src0 EXCEPT ![w] = source[w]]
          /\ pc' = [pc EXCEPT ![w] = "insert"]
       \/ /\ faults < MaxFaults
          /\ faults' = faults + 1
          /\ pc' = [pc EXCEPT ![w] = "fail"]
          /\ UNCHANGED <<rows, src0>>
    /\ UNCHANGED <<gateVars, tcVars, noteVars, lifeVars, extVars>>
    /\ UNCHANGED <<jobs, dst, source, dest, cache, max_rectime, conn, status,
                   inserted, cache0, log0, dupSeen, restarts, oob>>

\* insert_into_mssql_async: executemany + commit; on a duplicate key rollback,
\* row-by-row insert, commit, and no set_cached_rectime; any other exception
\* is raised again
FirebirdInsert(w) ==
    /\ w \in jobs /\ kind(w) = "firebird"
    /\ pc[w] = "insert"
    /\ LET t == dst[w] IN
       IF rows[w] = << >>
       THEN /\ status' = [status EXCEPT ![w] = "healthy"]
            /\ pc' = [pc EXCEPT ![w] = "sleep"]
            /\ UNCHANGED <<dest, inserted, dupSeen, faults>>
       ELSE IF Range(rows[w]) \cap dest[t] # {}
       THEN LET ok == SelectNotIn(rows[w], dest[t]) IN
            /\ dupSeen' = [dupSeen EXCEPT ![w] = TRUE]
            /\ dest' = [dest EXCEPT ![t] = @ \cup Range(ok)]
            /\ inserted' = [inserted EXCEPT ![w] = @ \o ok]
            /\ status' = [status EXCEPT ![w] = "healthy"]
            /\ pc' = [pc EXCEPT ![w] = "sleep"]
            /\ faults' = faults
       ELSE \/ /\ dest' = [dest EXCEPT ![t] = @ \cup Range(rows[w])]
               /\ inserted' = [inserted EXCEPT ![w] = @ \o rows[w]]
               /\ pc' = [pc EXCEPT ![w] = "set_cache"]
               /\ UNCHANGED <<status, dupSeen, faults>>
            \/ /\ faults < MaxFaults
               /\ faults' = faults + 1
               /\ pc' = [pc EXCEPT ![w] = "fail"]
               /\ UNCHANGED <<dest, inserted, status, dupSeen>>
            \/ /\ faults < MaxFaults
               /\ faults' = faults + 1
               /\ dest' = [dest EXCEPT ![t] = @ \cup Range(rows[w])]
               /\ inserted' = [inserted EXCEPT ![w] = @ \o rows[w]]
               /\ pc' = [pc EXCEPT ![w] = "fail"]
               /\ UNCHANGED <<status, dupSeen>>
    /\ UNCHANGED <<gateVars, tcVars, noteVars, lifeVars, extVars>>
    /\ UNCHANGED <<jobs, dst, source, cache, max_rectime, rows, conn,
                   cache0, log0, src0, restarts, oob>>

\* insert_into_mssql_async after the batch commit: set_cached_rectime with
\* the greatest RECTIME of the batch; then update_task_status(healthy=True)
FirebirdSetCache(w) ==
    /\ w \in jobs /\ kind(w) = "firebird"
    /\ pc[w] = "set_cache"
    /\ cache' = [cache EXCEPT ![dst[w]] = BatchMaxRectime(rows[w])]
    /\ status' = [status EXCEPT ![w] = "healthy"]
    /\ pc' = [pc EXCEPT ![w] = "sleep"]
    /\ UNCHANGED <<gateVars, tcVars, noteVars, lifeVars, extVars>>
    /\ UNCHANGED <<jobs, dst, source, dest, max_rectime, rows, conn, inserted,
                   cache0, log0, src0, dupSeen, faults, restarts, oob>>

\* the wait of sync_interval between two cycles
Sleep(w) ==
    /\ w \in jobs
    /\ pc[w] = "sleep"
    /\ pc' = [pc EXCEPT ![w] = "start"]
    /\ UNCHANGED <<gateVars, tcVars, noteVars, lifeVars, extVars>>
    /\ UNCHANGED <<jobs, dst, source, dest, cache, max_rectime, rows, conn, status,
                   inserted, cache0, log0, src0, dupSeen, faults, restarts, oob>>

\* except Exception: update_task_status(healthy=False), close the connections,
\* wait min(retry_delay, 60), next iteration
Fail(w) ==
    /\ w \in jobs
    /\ pc[w] = "fail"
    /\ status' = [status EXCEPT ![w] = "unhealthy"]
    /\ conn' = [conn EXCEPT ![w] = FALSE]
    /\ pc' = [pc EXCEPT ![w] = "start"]
    /\ UNCHANGED <<gateVars, tcVars, noteVars, lifeVars, extVars>>
    /\ UNCHANGED <<jobs, dst, source, dest, cache, max_rectime, rows,
                   inserted, cache0, log0, src0, dupSeen, faults, restarts, oob>>

WorkerStep(w) ==
    \/ Begin(w) \/ QueryMax(w) \/ StoreWm(w)
    \/ MssqlFetch(w) \/ MssqlInsert(w) \/ MssqlSetCache(w)
    \/ FirebirdFetch(w) \/ FirebirdInsert(w) \/ FirebirdSetCache(w)
    \/ Sleep(w) \/ Fail(w)

Next ==
    \/ \E w \in Workers : SourceAppend(w)
    \/ \E t \in Tables : DestWrite(t)
    \/ Restart
    \/ \E w \in Workers : Begin(w)
    \/ \E w \in Workers : QueryMax(w)
    \/ \E w \in Workers : StoreWm(w)
    \/ \E w \in Workers : MssqlFetch(w)
    \/ \E w \in Workers : MssqlInsert(w)
    \/ \E w \in Workers : MssqlSetCache(w)
    \/ \E w \in Workers : FirebirdFetch(w)
    \/ \E w \in Workers : FirebirdInsert(w)
    \/ \E w \in Workers : FirebirdSetCache(w)
    \/ \E w \in Workers : Sleep(w)
    \/ \E w \in Workers : Fail(w)

Spec == Init /\ [][Next]_vars

\* two DB-to-DB jobs configured with the same target_table; no I/O call fails
InitShared ==
    /\ InitTc
    /\ InitSync({"m1", "m2"}, SharedDst, MaxFaults)
    /\ InitGate(DefaultMessages, DefaultWindow, DefaultCooldown)
    /\ InitNote(DefaultNotificationTimeout)
    /\ InitLife
    /\ InitExt

NextShared ==
    \/ \E w \in Workers : SourceAppend(w)
    \/ \E w \in Workers : Begin(w)
    \/ \E w \in Workers : QueryMax(w)
    \/ \E w \in Workers : StoreWm(w)
    \/ \E w \in Workers : MssqlFetch(w)
    \/ \E w \in Workers : MssqlInsert(w)
    \/ \E w \in Workers : MssqlSetCache(w)
    \/ \E w \in Workers : Sleep(w)
    \/ \E w \in Workers : Fail(w)

SpecShared == InitShared /\ [][NextShared]_vars

\* one DB-to-DB job; the event loop keeps running the worker, and the number
\* of failing I/O calls and of restarts is finite
InitMssql ==
    /\ InitTc
    /\ InitSync({"m1"}, SeparateDst, 0)
    /\ InitGate(DefaultMessages, DefaultWindow, DefaultCooldown)
    /\ InitNote(DefaultNotificationTimeout)
    /\ InitLife
    /\ InitExt

MssqlWorker(w) ==
    \/ Begin(w) \/ QueryMax(w) \/ StoreWm(w)
    \/ MssqlFetch(w) \/ MssqlInsert(w) \/ MssqlSetCache(w)
    \/ Sleep(w) \/ Fail(w)

NextMssql ==
    \/ \E w \in Workers : SourceAppend(w)
    \/ Restart
    \/ \E w \in Workers : MssqlWorker(w)

SpecMssqlFair == InitMssql /\ [][NextMssql]_vars /\ WF_vars(MssqlWorker("m1"))

\* ------------------------------------------------- the notification gate
RECURSIVE Trim(_, _)
\* while self.message_times and self.message_times[0] < cutoff: popleft()
Trim(mt, cutoff) ==
    IF mt # << >> /\ Head(mt) < cutoff THEN Trim(Tail(mt), cutoff) ELSE mt

InCooldownInclusive == cooldown_until # NoneT /\ clock <= cooldown_until

\* can_send: "if self.cooldown_until and now < self.cooldown_until"
InCooldown == cooldown_until # NoneT /\ clock < cooldown_until

\* can_send: "elif self.cooldown_until and now >= self.cooldown_until"
CooldownOver == cooldown_until # NoneT /\ clock >= cooldown_until

\* can_send: the history after the clear of an expired cooldown and the trim
TrimmedHistory ==
    Trim(IF CooldownOver THEN << >> ELSE message_times, clock - window_seconds)

\* can_send: "if len(self.message_times) >= self.max_messages"
LimitReached == Len(TrimmedHistory) >= max_messages

SuppressedAtLimitKept(n) == n

\* can_send at the limit: "self.suppressed_count = 1"
SuppressedAtLimit(n) == 1

\* the body of can_send under the limiter's lock; an admitted call goes on to
\* the HTTP request (posting), a denied one returns
CanSend ==
    /\ IF InCooldown
       THEN /\ suppressed_count' = suppressed_count + 1
            /\ UNCHANGED <<message_times, cooldown_until, posting, admitted,
                           denied_at, released>>
       ELSE IF LimitReached
       THEN /\ message_times' = TrimmedHistory
            /\ cooldown_until' = clock + cooldown_seconds
            /\ suppressed_count' = SuppressedAtLimit(suppressed_count)
            /\ denied_at' = clock
            /\ UNCHANGED <<posting, admitted, released>>
       ELSE /\ message_times' = TrimmedHistory
            /\ cooldown_until' = NoneT
            /\ suppressed_count' = IF CooldownOver THEN 0 ELSE suppressed_count
            /\ admitted' = Append(admitted, clock)
            /\ posting' = TRUE
            /\ denied_at' = NoneT
            /\ released' = IF CooldownOver THEN suppressed_count ELSE released
    /\ UNCHANGED <<max_messages, window_seconds, cooldown_seconds, clock>>
    /\ denied_since' = IF admitted' # admitted
                       THEN (IF cooldown_until' = NoneT THEN 0 ELSE denied_since)
                       ELSE IF cooldown_until' # cooldown_until THEN 1
                       ELSE denied_since + 1
    /\ outcome' = IF admitted' # admitted THEN "posting" ELSE "suppressed"

\* send_telegram_message(force=False) up to the HTTP request
SendCall ==
    /\ ~posting
    /\ calls < MaxCalls
    /\ calls' = calls + 1
    /\ forced' = FALSE
    /\ CanSend
    /\ UNCHANGED <<syncVars, tcVars, noteVars, lifeVars>>
    /\ UNCHANGED <<cfgVars, cycleVars, backVars, connVars, nameVars, lockVars, tryVars>>

ConsultsGateAlways(force) == TRUE

\* send_telegram_message: "if not force and not await ...can_send()"
ConsultsGate(force) == ~force

\* send_telegram_message(force=True) up to the HTTP request
SendForced ==
    /\ ~posting
    /\ calls < MaxCalls
    /\ calls' = calls + 1
    /\ forced' = TRUE
    /\ IF ConsultsGate(TRUE)
       THEN CanSend
       ELSE /\ posting' = TRUE
            /\ outcome' = "posting"
            /\ UNCHANGED <<max_messages, window_seconds, cooldown_seconds, clock,
                           message_times, cooldown_until, suppressed_count, admitted,
                           denied_at, released, denied_since>>
    /\ UNCHANGED <<syncVars, tcVars, noteVars, lifeVars>>
    /\ UNCHANGED <<cfgVars, cycleVars, backVars, connVars, nameVars, lockVars, tryVars>>

\* send_telegram_message: the post succeeded, record_sent appends now
PostOk ==
    /\ posting
    /\ message_times' = Append(message_times, clock)
    /\ posting' = FALSE
    /\ UNCHANGED <<max_messages, window_seconds, cooldown_seconds, clock,
                   cooldown_until, suppressed_count, admitted, calls,
                   denied_at, released>>
    /\ outcome' = "sent"
    /\ UNCHANGED <<denied_since, forced>>
    /\ UNCHANGED <<syncVars, tcVars, noteVars, lifeVars>>
    /\ UNCHANGED <<cfgVars, cycleVars, backVars, connVars, nameVars, lockVars, tryVars>>

\* send_telegram_message: aiohttp.ClientError or timeout, logged and dropped
PostFail ==
    /\ posting
    /\ posting' = FALSE
    /\ UNCHANGED <<max_messages, window_seconds, cooldown_seconds, clock, message_times,
                   cooldown_until, suppressed_count, admitted, calls,
                   denied_at, released>>
    /\ outcome' = "failed"
    /\ UNCHANGED <<denied_since, forced>>
    /\ UNCHANGED <<syncVars, tcVars, noteVars, lifeVars>>
    /\ UNCHANGED <<cfgVars, cycleVars, backVars, connVars, nameVars, lockVars, tryVars>>

\* one second passes
GateTick ==
    /\ clock < MaxTime
    /\ clock' = clock + 1
    /\ UNCHANGED <<max_messages, window_seconds, cooldown_seconds, message_times,
                   cooldown_until, suppressed_count, posting, admitted, calls,
                   denied_at, released>>
    /\ UNCHANGED <<syncVars, tcVars, noteVars, lifeVars, extVars>>

\* configured limits the model runs with
MessageChoices == {1, 2}
WindowChoices == {2, 3}
CooldownChoices == {1, 3}

InitGateSpec ==
    /\ InitSync({}, SeparateDst, 0)
    /\ InitTc
    /\ \E m \in MessageChoices, ws \in WindowChoices, cs \in CooldownChoices :
          InitGate(m, ws, cs)
    /\ InitNote(DefaultNotificationTimeout)
    /\ InitLife
    /\ InitExt

NextGate == SendCall \/ PostOk \/ PostFail \/ GateTick

SpecGate == InitGateSpec /\ [][NextGate]_vars

\* the rate limiter with callers that pass force=True as well
NextForce == SendCall \/ SendForced \/ PostOk \/ PostFail \/ GateTick

SpecForce == InitGateSpec /\ [][NextForce]_vars

\* ------------------------------------------------- the staleness alerts
\* "(datetime.now() - last_update_time).total_seconds() > notification_timeout"
Stale(obs) == clock - obs > notification_timeout

AdvancesOrEqual(stored, obs) == stored <= obs

\* "if sent_notifications[table_name][1] < last_update_time"
Advances(stored, obs) == stored < obs

\* the entry of the table after the first "if" of _check_and_notify_logic
EntryAfterCheck(e, obs) ==
    IF e = NoEntry THEN <<FALSE, obs>>
    ELSE IF Advances(e[2], obs) THEN <<FALSE, obs>> ELSE e

ShouldAlertWhenStale(e, obs) == Stale(obs)

\* "... > notification_timeout and not sent_notifications[table_name][0]"
ShouldAlert(e, obs) == Stale(obs) /\ ~e[1]

\* timestamps a staleness check can be called with: None, the 1900 sentinel
\* (foreign-DB worker on an empty destination) or a row's RECTIME
ObsChoices == {NoneT, Sentinel} \cup TS

\* check_and_notify_async takes notifications_lock and runs
\* _check_and_notify_logic up to the call of send_telegram_message; without a
\* message to send the lock is released on return
NoteCheck(t, obs) ==
    /\ note_pc = "idle"
    /\ calls < MaxCalls
    /\ check_parity' = ~check_parity
    /\ note_table' = t
    /\ note_obs' = obs
    /\ IF obs = NoneT
       THEN /\ held' = {}
            /\ UNCHANGED <<sent_notifications, note_pc, run_obs, run_checks, run_handed>>
       ELSE LET e == EntryAfterCheck(sent_notifications[t], obs)
                send == ShouldAlert(e, obs)
                same == run_obs[t] = obs
                st == IF Stale(obs) THEN 1 ELSE 0
            IN  /\ sent_notifications' = [sent_notifications EXCEPT ![t] = e]
                /\ note_pc' = IF send THEN "can_send" ELSE "idle"
                /\ held' = IF send THEN {"notifications_lock"} ELSE {}
                /\ run_obs' = [run_obs EXCEPT ![t] = obs]
                /\ run_checks' = [run_checks EXCEPT ![t] =
                                     Min({MaxRun, (IF same THEN @ ELSE 0) + st})]
                /\ run_handed' = [run_handed EXCEPT ![t] =
                                     (IF same THEN @ ELSE 0) + (IF send THEN 1 ELSE 0)]
    /\ UNCHANGED notification_timeout
    /\ UNCHANGED <<syncVars, gateVars, tcVars, lifeVars, extVars>>

\* send_telegram_message, force=False: can_send enters "async with self.lock"
NoteAcquire ==
    /\ note_pc = "can_send"
    /\ note_pc' = "in_can_send"
    /\ held' = held \cup {"rate_limiter_lock"}
    /\ calls' = calls + 1
    /\ UNCHANGED <<max_messages, window_seconds, cooldown_seconds, clock, message_times,
                   cooldown_until, suppressed_count, posting, admitted,
                   denied_at, released>>
    /\ UNCHANGED <<notification_timeout, sent_notifications, note_table, note_obs,
                   check_parity, run_obs, run_checks, run_handed>>
    /\ forced' = FALSE
    /\ UNCHANGED <<denied_since, outcome>>
    /\ UNCHANGED <<syncVars, tcVars, lifeVars>>
    /\ UNCHANGED <<cfgVars, cycleVars, backVars, connVars, nameVars, lockVars, tryVars>>

\* the body of can_send, then the limiter's lock is released; a denied
\* message makes send_telegram_message return
NoteCanSend ==
    /\ note_pc = "in_can_send"
    /\ CanSend
    /\ calls' = calls
    /\ note_pc' = IF posting' THEN "post" ELSE "mark"
    /\ held' = held \ {"rate_limiter_lock"}
    /\ UNCHANGED <<notification_timeout, sent_notifications, note_table, note_obs,
                   check_parity, run_obs, run_checks, run_handed>>
    /\ forced' = forced
    /\ UNCHANGED <<syncVars, tcVars, lifeVars>>
    /\ UNCHANGED <<cfgVars, cycleVars, backVars, connVars, nameVars, lockVars, tryVars>>

\* session.post succeeded: record_sent appends now under the limiter's lock
NotePostOk ==
    /\ note_pc = "post"
    /\ message_times' = Append(message_times, clock)
    /\ posting' = FALSE
    /\ note_pc' = "mark"
    /\ UNCHANGED <<max_messages, window_seconds, cooldown_seconds, clock,
                   cooldown_until, suppressed_count, admitted, calls,
                   denied_at, released>>
    /\ UNCHANGED <<notification_timeout, sent_notifications, note_table, note_obs,
                   held, check_parity, run_obs, run_checks, run_handed>>
    /\ outcome' = "sent"
    /\ UNCHANGED <<denied_since, forced>>
    /\ UNCHANGED <<syncVars, tcVars, lifeVars>>
    /\ UNCHANGED <<cfgVars, cycleVars, backVars, connVars, nameVars, lockVars, tryVars>>

\* session.post raised aiohttp.ClientError or timed out: logged
NotePostFail ==
    /\ note_pc = "post"
    /\ posting' = FALSE
    /\ note_pc' = "mark"
    /\ UNCHANGED <<max_messages, window_seconds, cooldown_seconds, clock, message_times,
                   cooldown_until, suppressed_count, admitted, calls,
                   denied_at, released>>
    /\ UNCHANGED <<notification_timeout, sent_notifications, note_table, note_obs,
                   held, check_parity, run_obs, run_checks, run_handed>>
    /\ outcome' = "failed"
    /\ UNCHANGED <<denied_since, forced>>
    /\ UNCHANGED <<syncVars, tcVars, lifeVars>>
    /\ UNCHANGED <<cfgVars, cycleVars, backVars, connVars, nameVars, lockVars, tryVars>>

\* back in _check_and_notify_logic: the entry becomes (True, last_update_time)
\* and notifications_lock is released
NoteMark ==
    /\ note_pc = "mark"
    /\ sent_notifications' = [sent_notifications EXCEPT ![note_table] = <<TRUE, note_obs>>]
    /\ held' = {}
    /\ note_pc' = "idle"
    /\ UNCHANGED <<notification_timeout, note_table, note_obs,
                   check_parity, run_obs, run_checks, run_handed>>
    /\ UNCHANGED <<syncVars, gateVars, tcVars, lifeVars, extVars>>

\* configured notification_timeout values the model runs with
TimeoutChoices == {1, 2}

InitNoteSpec ==
    /\ InitSync({}, SeparateDst, 0)
    /\ InitTc
    /\ InitLife
    /\ InitExt
    /\ InitGate(Min(MessageChoices), Min(WindowChoices), Min(CooldownChoices))
    /\ \E nt \in TimeoutChoices : InitNote(nt)

NextNotify ==
    \/ \E t \in NoteTables, obs \in ObsChoices : NoteCheck(t, obs)
    \/ NoteAcquire \/ NoteCanSend \/ NotePostOk \/ NotePostFail \/ NoteMark
    \/ GateTick

SpecNotify == InitNoteSpec /\ [][NextNotify]_vars

\* --------------------------------------- the staleness check of a cycle
\* the table name a worker hands to check_and_notify_async: source_table in
\* the DB-to-DB worker, mssql_table in the foreign-DB worker; one table is
\* watched
NoteKey(w) == "A"

\* the last_update_time a worker hands to check_and_notify_async: row[0] of
\* SELECT MAX(RECTIME) on the source in the DB-to-DB worker, and
\* last_sync_time, the watermark of the destination, in the foreign-DB worker
CheckObs(w) ==
    IF kind(w) = "mssql" THEN MaxRectimeOf(source[w]) ELSE max_rectime[w]

\* "await check_and_notify_async(...)" of a cycle that has its watermark;
\* later cycles that find watermark and source as they are repeat it
WorkerCheck(w) ==
    /\ w \in jobs
    /\ pc[w] = "fetch"
    /\ NoteCheck(NoteKey(w), CheckObs(w))

\* one job, DB-to-DB or foreign-DB; its source holds any rows and its
\* destination any part of them (empty, lagging or complete)
InitStale ==
    /\ \E w \in {"m1", "f1"} : jobs = {w}
    /\ dst = SharedDst
    /\ \E S \in SUBSET TS : source = [w \in Workers |-> IF w \in jobs THEN S ELSE {}]
    /\ \E D \in SUBSET TS :
          /\ \A w \in jobs : D \subseteq source[w]
          /\ dest = [t \in Tables |-> IF t = "A" THEN D ELSE {}]
    /\ cache = [t \in Tables |-> NoneT]
    /\ pc = [w \in Workers |-> "start"]
    /\ max_rectime = [w \in Workers |-> NoneT]
    /\ rows = [w \in Workers |-> << >>]
    /\ conn = [w \in Workers |-> FALSE]
    /\ status = [w \in Workers |-> "absent"]
    /\ inserted = [w \in Workers |-> << >>]
    /\ cache0 = [w \in Workers |-> NoneT]
    /\ log0 = [w \in Workers |-> 0]
    /\ src0 = [w \in Workers |-> {}]
    /\ dupSeen = [w \in Workers |-> FALSE]
    /\ faults = 0
    /\ restarts = 0
    /\ oob = 0
    /\ InitTc
    /\ InitLife
    /\ InitExt
    /\ InitGate(Min(MessageChoices), Min(WindowChoices), Min(CooldownChoices))
    /\ \E nt \in TimeoutChoices : InitNote(nt)

NextStale ==
    \/ GateTick
    \/ \E w \in Workers : Begin(w)
    \/ \E w \in Workers : QueryMax(w)
    \/ \E w \in Workers : StoreWm(w)
    \/ \E w \in Workers : WorkerCheck(w)
    \/ NoteAcquire \/ NoteCanSend \/ NotePostOk \/ NotePostFail \/ NoteMark

SpecStale == InitStale /\ [][NextStale]_vars

\* ------------------------------------------------ the file-ingest worker
ShouldProcessTodayNoMinimum(file_mtime, lc, current_time, wm) ==
    \/ lc = NoneT
    \/ current_time - lc >= file_check_interval
    \/ wm = NoneT \/ file_mtime > wm

\* "if file_date == current_date": a file of the current day is taken when it
\* was never checked, or file_check_interval has passed since its last check,
\* or it was modified after the watermark and 300 s have passed since then;
\* lc is files_last_check.get(name), wm last_db_record
ShouldProcessToday(file_mtime, lc, current_time, wm) ==
    \/ lc = NoneT
    \/ current_time - lc >= file_check_interval
    \/ /\ (wm = NoneT \/ file_mtime > wm)
       /\ current_time - lc >= MinRecheck

ShouldProcessPastAnyMtime(file_date, file_mtime, current_time, wm) ==
    \/ wm = NoneT
    \/ file_date >= DateOf(wm)

\* the elif chain for a file of another day: everything when there is no
\* watermark, else a date after the watermark's date, or the same date and a
\* modification less than two hours ago
ShouldProcessPast(file_date, file_mtime, current_time, wm) ==
    \/ wm = NoneT
    \/ file_date > DateOf(wm)
    \/ /\ file_date = DateOf(wm)
       /\ current_time - file_mtime < TwoHours

\* the decision of run_tc2_processor_async whether a file found by the glob is
\* put on files_to_process: "if file_date >= search_date", then one of the
\* two branches
ShouldProcess(file_date, file_mtime, lc, current_time, wm) ==
    /\ file_date >= DateOf(current_time) - DaysToSearch
    /\ IF file_date = DateOf(current_time)
       THEN ShouldProcessToday(file_mtime, lc, current_time, wm)
       ELSE ShouldProcessPast(file_date, file_mtime, current_time, wm)

\* files_to_process.sort(key=mtime, reverse=True): the sorted orders of a set
ByMtimeDesc(S) ==
    { q \in Perms(S) : \A i, j \in 1..Len(q) : i < j => fmtime[q[i]] >= fmtime[q[j]] }

\* "if last is None or new > last" around every assignment of a new watermark
Adopt(last, new) == IF last = NoneT \/ new > last THEN new ELSE last

\* result of get_last_sync_time_async for a query that succeeded (ok) or raised
LastSyncTime(D, ok) ==
    IF ok /\ MaxRectimeOf(D) # NoneT THEN MaxRectimeOf(D) ELSE Sentinel

\* the writer appends a row to the current-day workbook
FileAppend ==
    /\ \E r \in FileTs("cur") :
        /\ \A x \in frows["cur"] : x < r
        /\ frows' = [frows EXCEPT !["cur"] = @ \cup {r}]
    /\ fmtime' = [fmtime EXCEPT !["cur"] = now]
    /\ UNCHANGED <<now, share_up, tc_pc, tc_conn, last_db_record, network_available,
                   files_last_check, files_to_process, max_processed_time, tc_status,
                   tc_inserted, tc_faults, ticks>>
    /\ UNCHANGED <<syncVars, gateVars, noteVars, lifeVars, extVars>>

\* time passes
TcTick ==
    /\ ticks < MaxTicks
    /\ ticks' = ticks + 1
    /\ \E d \in {MonitorInterval, MinRecheck, FileCheckInterval} : now' = now + d
    /\ UNCHANGED <<share_up, fmtime, frows, tc_pc, tc_conn, last_db_record,
                   network_available, files_last_check, files_to_process,
                   max_processed_time, tc_status, tc_inserted, tc_faults>>
    /\ UNCHANGED <<syncVars, gateVars, noteVars, lifeVars, extVars>>

\* the network share goes away or comes back
ShareFlip ==
    /\ share_up' = ~share_up
    /\ UNCHANGED <<now, fmtime, frows, tc_pc, tc_conn, last_db_record,
                   network_available, files_last_check, files_to_process,
                   max_processed_time, tc_status, tc_inserted, tc_faults, ticks>>
    /\ UNCHANGED <<syncVars, gateVars, noteVars, lifeVars, extVars>>

\* "if mssql_conn is None": connect, cursor(), and the watermark is assigned
\* from get_last_sync_time_async(use_cache=False), which stores a non-null
\* MAX in the cache and returns the sentinel when the query raises
TcConnect ==
    /\ tc_pc = "start" /\ ~tc_conn
    /\ \/ /\ tc_conn' = TRUE
          /\ last_db_record' = LastSyncTime(dest["T"], TRUE)
          /\ cache' = IF MaxRectimeOf(dest["T"]) # NoneT
                      THEN [cache EXCEPT !["T"] = MaxRectimeOf(dest["T"])]
                      ELSE cache
          /\ UNCHANGED <<tc_pc, tc_faults>>
       \/ /\ tc_faults < MaxTcFaults
          /\ tc_faults' = tc_faults + 1
          /\ tc_conn' = TRUE
          /\ last_db_record' = LastSyncTime(dest["T"], FALSE)
          /\ UNCHANGED <<tc_pc, cache>>
       \/ /\ tc_faults < MaxTcFaults
          /\ tc_faults' = tc_faults + 1
          /\ tc_pc' = "fail"
          /\ UNCHANGED <<tc_conn, last_db_record, cache>>
    /\ UNCHANGED <<now, share_up, fmtime, frows, network_available, files_last_check,
                   files_to_process, max_processed_time, tc_status, tc_inserted, ticks>>
    /\ UNCHANGED <<jobs, dst, source, dest, pc, max_rectime, rows, conn, status,
                   inserted, cache0, log0, src0, dupSeen, faults, restarts, oob>>
    /\ UNCHANGED <<gateVars, noteVars, lifeVars, extVars>>

\* directory check, glob and selection of the files of this cycle.  The
\* directory is probed when it was unavailable, or every check_interval
\* cycles (here: in some cycles).  An unavailable directory marks the task
\* unhealthy and ends the cycle; a failing glob ends it too.
TcScan ==
    /\ tc_pc = "start" /\ tc_conn
    /\ \/ \E probe \in BOOLEAN :
          LET avail == IF ~network_available \/ probe THEN share_up
                       ELSE network_available
          IN  IF ~avail
              THEN /\ network_available' = FALSE
                   /\ tc_status' = "unhealthy"
                   /\ UNCHANGED <<tc_pc, files_to_process, max_processed_time, tc_faults, wm0>>
              ELSE IF ~share_up
              THEN /\ network_available' = FALSE
                   /\ UNCHANGED <<tc_pc, tc_status, files_to_process,
                                  max_processed_time, tc_faults, wm0>>
              ELSE /\ network_available' = TRUE
                   /\ \E q \in ByMtimeDesc({ f \in Files :
                               ShouldProcess(FileDate(f), fmtime[f], files_last_check[f],
                                             now, last_db_record) }) :
                         files_to_process' = q
                   /\ max_processed_time' = last_db_record
                   /\ wm0' = last_db_record
                   /\ tc_pc' = "files"
                   /\ UNCHANGED <<tc_status, tc_faults>>
       \/ /\ tc_faults < MaxTcFaults
          /\ tc_faults' = tc_faults + 1
          /\ tc_pc' = "fail"
          /\ UNCHANGED <<network_available, tc_status, files_to_process,
                         max_processed_time, wm0>>
    /\ UNCHANGED <<now, share_up, fmtime, frows, tc_conn, last_db_record,
                   files_last_check, tc_inserted, ticks>>
    /\ UNCHANGED <<syncVars, gateVars, noteVars, lifeVars>>
    /\ UNCHANGED <<cfgVars, backVars, connVars, nameVars, lockVars, tryVars, sendVars>>

\* max_processed_time after one file: the greatest inserted RECTIME if rows
\* were inserted, else the greatest check_datetime of the filtered frame
NextMaxProcessed(mpt, n, max_inserted, file_max) ==
    IF n > 0
    THEN (IF max_inserted # NoneT /\ (mpt = NoneT \/ max_inserted > mpt)
          THEN max_inserted ELSE mpt)
    ELSE (IF file_max # NoneT /\ (mpt = NoneT \/ file_max > mpt)
          THEN file_max ELSE mpt)

TcFrameRunningMax(f) ==
    SortAsc(IF max_processed_time = NoneT THEN frows[f]
            ELSE Delta(frows[f], max_processed_time))

\* the rows of a file that read_excel_file_async keeps: check_datetime
\* greater than last_db_record, in file order
TcFrame(f) ==
    SortAsc(IF last_db_record = NoneT THEN frows[f]
            ELSE Delta(frows[f], last_db_record))

\* one iteration of "for file_path in files_to_process": the check time is
\* recorded, the file is read and filtered against last_db_record, and the
\* frame is handed to save_tc2_to_sqlserver_async: batch insert and commit, or
\* per-row insert after a duplicate key, or (0, None) after another error.
\* A failing read yields no frame; every exception stays inside the iteration.
TcProcessFile ==
    /\ tc_pc = "files" /\ files_to_process # << >>
    /\ LET f == Head(files_to_process)
           df == TcFrame(f)
           ok == SelectNotIn(df, dest["T"])
       IN
       /\ files_to_process' = Tail(files_to_process)
       /\ files_last_check' = [files_last_check EXCEPT ![f] = now]
       /\ \/ /\ df = << >>
             /\ UNCHANGED <<dest, tc_inserted, max_processed_time, tc_faults>>
          \/ /\ tc_faults < MaxTcFaults
             /\ tc_faults' = tc_faults + 1
             /\ UNCHANGED <<dest, tc_inserted, max_processed_time>>
          \/ /\ df # << >>
             /\ dest' = [dest EXCEPT !["T"] = @ \cup Range(ok)]
             /\ tc_inserted' = tc_inserted \o ok
             /\ max_processed_time' =
                   NextMaxProcessed(max_processed_time, Len(ok),
                                    IF ok = << >> THEN NoneT ELSE Max(Range(ok)),
                                    Max(Range(df)))
             /\ tc_faults' = tc_faults
          \/ /\ df # << >>
             /\ tc_faults < MaxTcFaults
             /\ tc_faults' = tc_faults + 1
             /\ max_processed_time' =
                   NextMaxProcessed(max_processed_time, 0, NoneT, Max(Range(df)))
             /\ UNCHANGED <<dest, tc_inserted>>
    /\ UNCHANGED <<now, share_up, fmtime, frows, tc_pc, tc_conn, last_db_record,
                   network_available, tc_status, ticks>>
    /\ UNCHANGED <<jobs, dst, source, cache, pc, max_rectime, rows, conn, status,
                   inserted, cache0, log0, src0, dupSeen, faults, restarts, oob>>
    /\ UNCHANGED <<gateVars, noteVars, lifeVars, extVars>>

\* after the loop: two reads of MAX(RECTIME) with use_cache=False, each of
\* which may raise inside get_last_sync_time_async; a greater result becomes
\* the watermark and is cached; then update_task_status(healthy=True)
TcRefresh ==
    /\ tc_pc = "files" /\ files_to_process = << >>
    /\ \E ok1, ok2 \in BOOLEAN :
        LET nfail == (IF ok1 THEN 0 ELSE 1) + (IF ok2 THEN 0 ELSE 1)
            m == MaxRectimeOf(dest["T"])
            first == max_processed_time # NoneT
            l1 == IF first THEN Adopt(last_db_record, LastSyncTime(dest["T"], ok1))
                  ELSE last_db_record
            l2 == Adopt(l1, LastSyncTime(dest["T"], ok2))
            c1 == IF first /\ ok1 /\ m # NoneT THEN m ELSE cache["T"]
            c2 == IF l1 # last_db_record THEN l1 ELSE c1
            c3 == IF ok2 /\ m # NoneT THEN m ELSE c2
            c4 == IF l2 # l1 THEN l2 ELSE c3
        IN
        /\ tc_faults + nfail <= MaxTcFaults
        /\ tc_faults' = tc_faults + nfail
        /\ last_db_record' = l2
        /\ cache' = [cache EXCEPT !["T"] = c4]
    /\ tc_status' = "healthy"
    /\ tc_pc' = "sleep"
    /\ UNCHANGED <<now, share_up, fmtime, frows, tc_conn, network_available,
                   files_last_check, files_to_process, max_processed_time,
                   tc_inserted, ticks>>
    /\ UNCHANGED <<jobs, dst, source, dest, pc, max_rectime, rows, conn, status,
                   inserted, cache0, log0, src0, dupSeen, faults, restarts, oob>>
    /\ UNCHANGED <<gateVars, noteVars, lifeVars, extVars>>

\* the wait of monitor_interval between two cycles
TcSleep ==
    /\ tc_pc = "sleep"
    /\ tc_pc' = "start"
    /\ UNCHANGED <<now, share_up, fmtime, frows, tc_conn, last_db_record,
                   network_available, files_last_check, files_to_process,
                   max_processed_time, tc_status, tc_inserted, tc_faults, ticks>>
    /\ UNCHANGED <<syncVars, gateVars, noteVars, lifeVars, extVars>>

\* except Exception of the loop: unhealthy, connection closed and forgotten,
\* backoff wait
TcFail ==
    /\ tc_pc = "fail"
    /\ tc_status' = "unhealthy"
    /\ tc_conn' = FALSE
    /\ tc_pc' = "start"
    /\ UNCHANGED <<now, share_up, fmtime, frows, last_db_record,
                   network_available, files_last_check, files_to_process,
                   max_processed_time, tc_inserted, tc_faults, ticks>>
    /\ UNCHANGED <<syncVars, gateVars, noteVars, lifeVars, extVars>>

TcWorker ==
    TcConnect \/ TcScan \/ TcProcessFile \/ TcRefresh \/ TcSleep \/ TcFail

InitTcSpec ==
    /\ InitSync({}, SeparateDst, 0)
    /\ InitGate(DefaultMessages, DefaultWindow, DefaultCooldown)
    /\ InitNote(DefaultNotificationTimeout)
    /\ InitLife
    /\ InitExt
    /\ InitTc

NextTc ==
    \/ FileAppend \/ TcTick \/ ShareFlip
    \/ TcConnect \/ TcScan \/ TcProcessFile \/ TcRefresh \/ TcSleep \/ TcFail

SpecTc == InitTcSpec /\ [][NextTc]_vars

\* the share stays reachable and the event loop keeps running the worker
NextTcFair ==
    \/ FileAppend
    \/ TcConnect \/ TcScan \/ TcProcessFile \/ TcRefresh \/ TcSleep \/ TcFail

SpecTcFair == InitTcSpec /\ [][NextTcFair]_vars /\ WF_vars(TcWorker)

\* -------------------------------------- the selection of one directory scan
\* a configured file_check_interval below the five minutes, and the default
ShortCheckInterval == 60
IntervalChoices == {ShortCheckInterval, FileCheckInterval}

\* days on which the scan runs: the day of the newer workbook, the day after,
\* and the two days around the end of the lookback window of the older one
ScanDays == {Today, Today + 1, Today + DaysToSearch - 1, Today + DaysToSearch}

\* seconds since the last check of a file
AgoChoices == {MonitorInterval, MinRecheck - 1, MinRecheck,
               FileCheckInterval - 1, FileCheckInterval}

\* watermarks the worker can hold after its connect: the sentinel of an empty
\* table, or a row of the day of one of the workbooks
WmChoices == {Sentinel} \cup { FileDate(f) * Day + 200 : f \in Files }

\* the worker is connected and about to scan; the workbooks were written and
\* checked at any of the instants above
InitSelect ==
    /\ InitSync({}, SeparateDst, 0)
    /\ InitGate(DefaultMessages, DefaultWindow, DefaultCooldown)
    /\ InitNote(DefaultNotificationTimeout)
    /\ InitLife
    /\ \E fci \in IntervalChoices : InitCfg(fci)
    /\ InitBack("mssql")
    /\ InitConn
    /\ InitLocks
    /\ InitTry
    /\ InitSend
    /\ InitCycle
    /\ InitNames([w \in NamedJobs |-> IF w = "m1" THEN NameX ELSE NameY],
                 [w \in NamedJobs |-> IF w = "f1" THEN NameDboX ELSE NameY])
    /\ \E d \in ScanDays : now = d * Day + Noon
    /\ share_up = TRUE
    /\ fmtime \in [Files -> { FileDate(f) * Day + 100 : f \in Files }
                           \cup {now - TwoHours, now - TwoHours + 1}]
    /\ \A f \in Files : fmtime[f] >= FileDate(f) * Day
    /\ frows = [f \in Files |-> {FileDate(f) * Day + 100}]
    /\ tc_pc = "start"
    /\ tc_conn = TRUE
    /\ last_db_record \in WmChoices
    /\ network_available = TRUE
    /\ files_last_check \in [Files -> {NoneT} \cup { now - a : a \in AgoChoices }]
    /\ files_to_process = << >>
    /\ max_processed_time = NoneT
    /\ tc_status = "healthy"
    /\ tc_inserted = << >>
    /\ tc_faults = 0
    /\ ticks = 0

NextSelect == TcScan

SpecSelect == InitSelect /\ [][NextSelect]_vars

\* ------------------------------------------ with and without the cache
\* a worker and its twin that bypasses the cache, each with its own
\* destination table, in front of the same source rows; no I/O call fails
InitCache ==
    /\ InitTc
    /\ InitGate(DefaultMessages, DefaultWindow, DefaultCooldown)
    /\ InitNote(DefaultNotificationTimeout)
    /\ InitLife
    /\ InitExt
    /\ \E J \in {{"m1", "n1"}, {"f1", "g1"}} : InitSync(J, PairDst, MaxFaults)

\* one step of a cycle of either worker
PairStep(w) ==
    \/ Begin(w) \/ QueryMax(w) \/ StoreWm(w)
    \/ MssqlFetch(w) \/ MssqlInsert(w) \/ MssqlSetCache(w)
    \/ FirebirdFetch(w) \/ FirebirdInsert(w) \/ FirebirdSetCache(w)

\* both workers finished their cycle: each waits (after the handler if the
\* cycle failed), and meanwhile nothing happens, or a row is appended to both
\* sources, or somebody else writes a row into both destinations
PairRound ==
    /\ \A w \in jobs : pc[w] \in {"sleep", "fail"}
    /\ pc' = [w \in Workers |-> IF w \in jobs THEN "start" ELSE pc[w]]
    /\ status' = [w \in Workers |->
                     IF w \in jobs /\ pc[w] = "fail" THEN "unhealthy" ELSE status[w]]
    /\ conn' = [w \in Workers |-> IF w \in jobs /\ pc[w] = "fail" THEN FALSE ELSE conn[w]]
    /\ \/ UNCHANGED <<source, dest, oob>>
       \/ /\ \E r \in TS :
               /\ \A w \in jobs : \A x \in source[w] : x < r
               /\ source' = [w \in Workers |->
                                IF w \in jobs THEN source[w] \cup {r} ELSE source[w]]
          /\ UNCHANGED <<dest, oob>>
       \/ /\ oob < MaxOob
          /\ oob' = oob + 1
          /\ \E r \in TS :
               /\ \A w \in jobs : r \notin dest[dst[w]]
               /\ dest' = [t \in Tables |->
                              IF \E w \in jobs : dst[w] = t THEN dest[t] \cup {r}
                              ELSE dest[t]]
          /\ source' = source
    /\ UNCHANGED <<jobs, dst, cache, max_rectime, rows, inserted, cache0, log0,
                   src0, dupSeen, faults, restarts>>
    /\ UNCHANGED <<gateVars, tcVars, noteVars, lifeVars, extVars>>

NextCache ==
    \/ \E w \in Workers : PairStep(w)
    \/ PairRound

SpecCache == InitCache /\ [][NextCache]_vars

\* ------------------------------------- batch insert with per-row retry
RECURSIVE InsertEach(_, _)
\* "for values in all_values: try: execute(sql, values) except: pass": the
\* table after the rows were inserted one at a time, duplicates rejected
InsertEach(D, s) ==
    IF s = << >> THEN D
    ELSE InsertEach(IF Head(s) \in D THEN D ELSE D \cup {Head(s)}, Tail(s))

\* both insert paths in the middle of a cycle whose watermark is the 1900
\* sentinel, in front of any destination contents and any batch; no call
\* fails for another reason than a duplicate key
InitBatch ==
    /\ InitGate(DefaultMessages, DefaultWindow, DefaultCooldown)
    /\ InitNote(DefaultNotificationTimeout)
    /\ InitLife
    /\ InitExt
    /\ jobs = {"f1"}
    /\ dst = SeparateDst
    /\ \E S \in SUBSET TS, D \in SUBSET TS, F \in SUBSET FileTs("old"),
          DT \in SUBSET FileTs("old") :
          \E batch \in Perms(S) :
            /\ source = [w \in Workers |-> IF w = "f1" THEN S ELSE {}]
            /\ src0 = [w \in Workers |-> IF w = "f1" THEN S ELSE {}]
            /\ rows = [w \in Workers |-> IF w = "f1" THEN batch ELSE << >>]
            /\ dest = [t \in Tables |-> IF t = "B" THEN D
                                        ELSE IF t = "T" THEN DT ELSE {}]
            /\ frows = [f \in Files |-> IF f = "old" THEN F ELSE {}]
    /\ cache = [t \in Tables |-> NoneT]
    /\ pc = [w \in Workers |-> IF w = "f1" THEN "insert" ELSE "start"]
    /\ max_rectime = [w \in Workers |-> IF w = "f1" THEN Sentinel ELSE NoneT]
    /\ conn = [w \in Workers |-> w = "f1"]
    /\ status = [w \in Workers |-> "absent"]
    /\ inserted = [w \in Workers |-> << >>]
    /\ cache0 = [w \in Workers |-> NoneT]
    /\ log0 = [w \in Workers |-> 0]
    /\ dupSeen = [w \in Workers |-> FALSE]
    /\ faults = MaxFaults
    /\ restarts = MaxRestarts
    /\ oob = MaxOob
    /\ now = Today * Day + Noon
    /\ share_up = TRUE
    /\ fmtime = [f \in Files |-> FileDate(f) * Day + 100]
    /\ tc_pc = "files"
    /\ tc_conn = TRUE
    /\ last_db_record = Sentinel
    /\ network_available = TRUE
    /\ files_last_check = [f \in Files |-> NoneT]
    /\ files_to_process = <<"old">>
    /\ max_processed_time = Sentinel
    /\ tc_status = "absent"
    /\ tc_inserted = << >>
    /\ tc_faults = MaxTcFaults
    /\ ticks = 0

NextBatch ==
    \/ FirebirdInsert("f1")
    \/ FirebirdSetCache("f1")
    \/ TcProcessFile

SpecBatch == InitBatch /\ [][NextBatch]_vars

\* ------------------------------------------- worker loops and shutdown
LoopConditionAlways(sd) == TRUE

\* "while not shutdown_event.is_set()"
LoopCondition(sd) == ~sd

ShutdownWinsAlways(sd) == TRUE

\* asyncio.wait_for(shutdown_event.wait(), timeout=...): returns when the
\* event is set (the worker breaks), raises TimeoutError otherwise
ShutdownWins(sd) == sd

\* graceful_shutdown: the signal handler sets the event
LifeShutdown ==
    /\ ~shutdown
    /\ shutdown' = TRUE
    /\ UNCHANGED <<lpc, lconn, task_status, dir_ok, late>>
    /\ UNCHANGED <<syncVars, gateVars, tcVars, noteVars, extVars>>

\* the network share goes away or comes back
DirFlip ==
    /\ dir_ok' = ~dir_ok
    /\ UNCHANGED <<shutdown, lpc, lconn, task_status, late>>
    /\ UNCHANGED <<syncVars, gateVars, tcVars, noteVars, extVars>>

\* the loop condition, then "if ... conn is None"
LoopTest(w) ==
    /\ lpc[w] = "test"
    /\ lpc' = [lpc EXCEPT ![w] = IF ~LoopCondition(shutdown) THEN "done"
                                  ELSE IF lconn[w] THEN "cycle" ELSE "connect"]
    /\ UNCHANGED <<shutdown, lconn, task_status, dir_ok, late>>
    /\ UNCHANGED <<syncVars, gateVars, tcVars, noteVars, extVars>>

\* connect_to_mssql_async: one attempt of retry_with_backoff_async
Connect(w) ==
    /\ lpc[w] = "connect"
    /\ \/ /\ lconn' = [lconn EXCEPT ![w] = TRUE]
          /\ lpc' = [lpc EXCEPT ![w] = "cycle"]
       \/ /\ lpc' = [lpc EXCEPT ![w] = "connect_wait"]
          /\ lconn' = lconn
    /\ UNCHANGED <<shutdown, task_status, dir_ok, late>>
    /\ UNCHANGED <<syncVars, gateVars, tcVars, noteVars, extVars>>

\* retry_with_backoff_async between two attempts: the wait for the shutdown
\* event raises KeyboardInterrupt when the event is set, which no handler of
\* the worker catches
ConnectWait(w) ==
    /\ lpc[w] = "connect_wait"
    /\ lpc' = [lpc EXCEPT ![w] = IF ShutdownWins(shutdown) THEN "interrupted"
                                  ELSE "connect"]
    /\ UNCHANGED <<shutdown, lconn, task_status, dir_ok, late>>
    /\ UNCHANGED <<syncVars, gateVars, tcVars, noteVars, extVars>>

\* the body of one iteration up to its wait: it completes and reports
\* healthy, or some call raises; the file-ingest worker also leaves it when
\* the directory is unavailable (reported unhealthy) or the listing fails
Cycle(w) ==
    /\ lpc[w] = "cycle"
    /\ \/ /\ w = "tc2" => dir_ok
          /\ task_status' = [task_status EXCEPT ![w] = "healthy"]
          /\ lpc' = [lpc EXCEPT ![w] = "sleep"]
       \/ /\ lpc' = [lpc EXCEPT ![w] = "handler"]
          /\ task_status' = task_status
       \/ /\ w = "tc2" /\ ~dir_ok
          /\ task_status' = [task_status EXCEPT ![w] = "unhealthy"]
          /\ lpc' = [lpc EXCEPT ![w] = "dir_wait"]
       \/ /\ w = "tc2" /\ ~dir_ok
          /\ task_status' = task_status
          /\ lpc' = [lpc EXCEPT ![w] = "dir_wait"]
    /\ UNCHANGED <<shutdown, lconn, dir_ok, late>>
    /\ UNCHANGED <<syncVars, gateVars, tcVars, noteVars, extVars>>

\* "except Exception": update_task_status(healthy=False), the connections
\* are closed and forgotten
Handler(w) ==
    /\ lpc[w] = "handler"
    /\ task_status' = [task_status EXCEPT ![w] = "unhealthy"]
    /\ lconn' = [lconn EXCEPT ![w] = FALSE]
    /\ lpc' = [lpc EXCEPT ![w] = "backoff"]
    /\ UNCHANGED <<shutdown, dir_ok, late>>
    /\ UNCHANGED <<syncVars, gateVars, tcVars, noteVars, extVars>>

\* the wait of sync_interval or monitor_interval after a cycle
SleepEnd(w) ==
    /\ lpc[w] = "sleep"
    /\ lpc' = [lpc EXCEPT ![w] = IF ShutdownWins(shutdown) THEN "done" ELSE "test"]
    /\ UNCHANGED <<shutdown, lconn, task_status, dir_ok, late>>
    /\ UNCHANGED <<syncVars, gateVars, tcVars, noteVars, extVars>>

\* the wait of min(retry_delay, 60) in the handler
BackoffEnd(w) ==
    /\ lpc[w] = "backoff"
    /\ lpc' = [lpc EXCEPT ![w] = IF ShutdownWins(shutdown) THEN "done" ELSE "test"]
    /\ UNCHANGED <<shutdown, lconn, task_status, dir_ok, late>>
    /\ UNCHANGED <<syncVars, gateVars, tcVars, noteVars, extVars>>

\* "await asyncio.sleep(monitor_interval)" and "continue": the sleep ends
\* only when its time is over, also when the event was set meanwhile
DirWaitEnd(w) ==
    /\ lpc[w] = "dir_wait"
    /\ lpc' = [lpc EXCEPT ![w] = "test"]
    /\ late' = [late EXCEPT ![w] = @ \/ shutdown]
    /\ UNCHANGED <<shutdown, lconn, task_status, dir_ok>>
    /\ UNCHANGED <<syncVars, gateVars, tcVars, noteVars, extVars>>

LifeStep(w) ==
    \/ LoopTest(w) \/ Connect(w) \/ ConnectWait(w) \/ Cycle(w) \/ Handler(w)
    \/ SleepEnd(w) \/ BackoffEnd(w) \/ DirWaitEnd(w)

InitLifeSpec ==
    /\ InitSync({}, SeparateDst, 0)
    /\ InitGate(DefaultMessages, DefaultWindow, DefaultCooldown)
    /\ InitNote(DefaultNotificationTimeout)
    /\ InitTc
    /\ InitLife
    /\ InitExt

NextLife ==
    \/ LifeShutdown
    \/ DirFlip
    \/ \E w \in Tasks : LoopTest(w)
    \/ \E w \in Tasks : Connect(w)
    \/ \E w \in Tasks : ConnectWait(w)
    \/ \E w \in Tasks : Cycle(w)
    \/ \E w \in Tasks : Handler(w)
    \/ \E w \in Tasks : SleepEnd(w)
    \/ \E w \in Tasks : BackoffEnd(w)
    \/ \E w \in Tasks : DirWaitEnd(w)

SpecLife == InitLifeSpec /\ [][NextLife]_vars

\* the event loop keeps running every worker, and every call returns
SpecLifeFair ==
    InitLifeSpec /\ [][NextLife]_vars /\ \A w \in Tasks : WF_vars(LifeStep(w))

\* ------------------------------------------------- the backoff of a loop
\* the cap of the backoff wait and of retry_delay
MaxBackoff == 60

DelayAfterSuccessKept(d) == d

\* "retry_delay = 1" after update_task_status(healthy=True)
DelayAfterSuccess(d) == 1

\* "timeout=min(retry_delay, 60)"
BackoffTimeout(d) == IF d < MaxBackoff THEN d ELSE MaxBackoff

\* "retry_delay = min(retry_delay * 2, 60)"
DelayAfterFailure(d) == IF d * 2 < MaxBackoff THEN d * 2 ELSE MaxBackoff

\* update_task_status stores "last_sync.isoformat() if last_sync else None":
\* the instant it is given, and None when the caller passes no last_sync
LastSyncField(given) == IF given # NoneT THEN given ELSE NoneT

\* the loop condition and the body of one iteration: the cycle completes,
\* reports healthy with last_sync=datetime.now() and resets retry_delay, or some call raises; a cycle of the
\* file-ingest worker that finds the directory unavailable reports unhealthy,
\* sleeps monitor_interval and continues with retry_delay as it was
RetryCycle(w) ==
    /\ w = brun /\ bpc[w] = "cycle"
    /\ IF ~LoopCondition(shutdown)
       THEN /\ bpc' = [bpc EXCEPT ![w] = "done"]
            /\ UNCHANGED <<retry_delay, failed_run, waited, recovered, task_status>>
            /\ UNCHANGED <<last_sync, synced_at, syncs>>
       ELSE \/ /\ syncs < MaxSyncs
               /\ task_status' = [task_status EXCEPT ![w] = "healthy"]
               /\ syncs' = syncs + 1
               /\ last_sync' = [last_sync EXCEPT ![w] = LastSyncField(syncs + 1)]
               /\ synced_at' = [synced_at EXCEPT ![w] = syncs + 1]
               /\ recovered' = [recovered EXCEPT ![w] = @ \/ failed_run[w] > 0]
               /\ retry_delay' = [retry_delay EXCEPT ![w] = DelayAfterSuccess(@)]
               /\ failed_run' = [failed_run EXCEPT ![w] = 0]
               /\ waited' = [waited EXCEPT ![w] = NoneT]
               /\ bpc' = [bpc EXCEPT ![w] = "sleep"]
            \/ /\ failed_run[w] < MaxFails
               /\ bpc' = [bpc EXCEPT ![w] = "handler"]
               /\ UNCHANGED <<retry_delay, failed_run, waited, recovered, task_status>>
               /\ UNCHANGED <<last_sync, synced_at, syncs>>
            \/ /\ w = "tc2"
               /\ task_status' = [task_status EXCEPT ![w] = "unhealthy"]
               /\ last_sync' = [last_sync EXCEPT ![w] = LastSyncField(NoneT)]
               /\ UNCHANGED <<retry_delay, failed_run, waited, recovered, bpc>>
               /\ UNCHANGED <<synced_at, syncs>>
    /\ UNCHANGED <<brun, shutdown, lpc, lconn, dir_ok, late>>
    /\ UNCHANGED <<syncVars, gateVars, tcVars, noteVars, cfgVars, cycleVars, sendVars, lockVars, connVars, nameVars, tryVars>>

\* "except Exception": update_task_status(task_name, healthy=False,
\* error=e) passes no last_sync; the connections are closed, and the wait
\* of min(retry_delay, 60) begins
RetryHandler(w) ==
    /\ w = brun /\ bpc[w] = "handler"
    /\ task_status' = [task_status EXCEPT ![w] = "unhealthy"]
    /\ last_sync' = [last_sync EXCEPT ![w] = LastSyncField(NoneT)]
    /\ failed_run' = [failed_run EXCEPT ![w] = @ + 1]
    /\ waited' = [waited EXCEPT ![w] = BackoffTimeout(retry_delay[w])]
    /\ bpc' = [bpc EXCEPT ![w] = "backoff"]
    /\ UNCHANGED <<retry_delay, brun, recovered, shutdown, lpc, lconn, dir_ok, late>>
    /\ UNCHANGED <<synced_at, syncs>>
    /\ UNCHANGED <<syncVars, gateVars, tcVars, noteVars, cfgVars, cycleVars, sendVars, lockVars, connVars, nameVars, tryVars>>

\* the end of the backoff wait: break when the event is set, else
\* TimeoutError and retry_delay is doubled up to 60
RetryBackoffEnd(w) ==
    /\ w = brun /\ bpc[w] = "backoff"
    /\ IF ShutdownWins(shutdown)
       THEN /\ bpc' = [bpc EXCEPT ![w] = "done"]
            /\ retry_delay' = retry_delay
       ELSE /\ bpc' = [bpc EXCEPT ![w] = "cycle"]
            /\ retry_delay' = [retry_delay EXCEPT ![w] = DelayAfterFailure(@)]
    /\ UNCHANGED <<brun, failed_run, waited, recovered, last_sync, synced_at, syncs>>
    /\ UNCHANGED <<syncVars, gateVars, tcVars, noteVars, lifeVars, cfgVars, cycleVars, sendVars, lockVars, connVars, nameVars, tryVars>>

\* the end of the wait of sync_interval or monitor_interval after a cycle
RetrySleepEnd(w) ==
    /\ w = brun /\ bpc[w] = "sleep"
    /\ bpc' = [bpc EXCEPT ![w] = IF ShutdownWins(shutdown) THEN "done" ELSE "cycle"]
    /\ UNCHANGED <<retry_delay, brun, failed_run, waited, recovered>>
    /\ UNCHANGED <<last_sync, synced_at, syncs>>
    /\ UNCHANGED <<syncVars, gateVars, tcVars, noteVars, lifeVars, cfgVars, cycleVars, sendVars, lockVars, connVars, nameVars, tryVars>>

\* one of the three workers runs its loop
InitBackoff ==
    /\ InitSync({}, SeparateDst, 0)
    /\ InitGate(DefaultMessages, DefaultWindow, DefaultCooldown)
    /\ InitNote(DefaultNotificationTimeout)
    /\ InitTc
    /\ InitLife
    /\ InitCfg(FileCheckInterval)
    /\ \E w \in Tasks : InitBack(w)
    /\ InitConn
    /\ InitLocks
    /\ InitTry
    /\ InitSend
    /\ InitCycle
    /\ InitNames([w \in NamedJobs |-> IF w = "m1" THEN NameX ELSE NameY],
                 [w \in NamedJobs |-> IF w = "f1" THEN NameDboX ELSE NameY])

NextBackoff ==
    \/ LifeShutdown
    \/ \E w \in Tasks : RetryCycle(w)
    \/ \E w \in Tasks : RetryHandler(w)
    \/ \E w \in Tasks : RetryBackoffEnd(w)
    \/ \E w \in Tasks : RetrySleepEnd(w)

SpecBackoff == InitBackoff /\ [][NextBackoff]_vars

\* ------------------------------------ connections of the worker loops
\* exceptions a call of the cycle can raise
ErrorChoices == {"timeout", "duplicate"}

\* the connections a task holds in source_conn and target_conn / mssql_conn
Held(w) == {source_conn[w], target_conn[w]} \ {NoneT}

CloseConnectionKeepRegistered(reg, c) == reg

\* close_connection_safe(conn) on the registry: "if conn:" and
\* unregister_connection remove the connection when it is registered
CloseConnectionSafe(reg, c) == IF c # NoneT THEN reg \ {c} ELSE reg

\* "while not shutdown_event.is_set()" and "try:"
ConnTop(w) ==
    /\ cpc[w] = "top"
    /\ cpc' = [cpc EXCEPT ![w] = IF LoopCondition(shutdown) THEN "connect" ELSE "done"]
    /\ UNCHANGED <<source_conn, target_conn, active_connections, open_conns,
                   closed_conns, next_conn, raised, last_error, held_at_raise>>
    /\ UNCHANGED <<syncVars, gateVars, tcVars, noteVars, lifeVars, cfgVars, cycleVars, sendVars, lockVars, backVars, nameVars, tryVars>>

\* "max_retries=0" and "max_delay=60" as connect_to_mssql_async passes them
ConnectMaxRetries == 0
ConnectMaxDelay == 60

GivesUpAtCount(n, max_retries) == n >= max_retries

\* retry_with_backoff_async: "if max_retries > 0 and retries >= max_retries",
\* then the exception is raised again
GivesUp(n, max_retries) == max_retries > 0 /\ n >= max_retries

\* "delay = min(delay * 2, max_delay)"
NextDelay(d, max_delay) == IF d * 2 < max_delay THEN d * 2 ELSE max_delay

\* "if source_conn is None" (DB-to-DB worker only) and "if target_conn is
\* None": one attempt of do_connect inside connect_to_mssql_async, which
\* registers the new connection, and the cursor() call that follows, which
\* may raise; a failed attempt is counted and, unless the retry gives up,
\* followed by a wait; with both connections present the cycle body starts
ConnOpen(w) ==
    /\ cpc[w] = "connect"
    /\ LET needSource == w = "mssql" /\ source_conn[w] = NoneT
           needTarget == target_conn[w] = NoneT
           c == next_conn + 1
       IN
       IF ~needSource /\ ~needTarget
       THEN /\ cpc' = [cpc EXCEPT ![w] = "body"]
            /\ UNCHANGED <<source_conn, target_conn, active_connections, open_conns,
                           next_conn, raised, held_at_raise, retries, delay>>
       ELSE \/ /\ next_conn < MaxConns
               /\ next_conn' = c
               /\ active_connections' = active_connections \cup {c}
               /\ open_conns' = open_conns \cup {c}
               /\ retries' = [retries EXCEPT ![w] = 0]
               /\ delay' = [delay EXCEPT ![w] = BaseDelay]
               /\ IF needSource
                  THEN /\ source_conn' = [source_conn EXCEPT ![w] = c]
                       /\ target_conn' = target_conn
                  ELSE /\ target_conn' = [target_conn EXCEPT ![w] = c]
                       /\ source_conn' = source_conn
               /\ \/ UNCHANGED <<cpc, raised, held_at_raise>>
                  \/ /\ \E e \in ErrorChoices : raised' = [raised EXCEPT ![w] = e]
                     /\ held_at_raise' = [held_at_raise EXCEPT ![w] = Held(w) \cup {c}]
                     /\ cpc' = [cpc EXCEPT ![w] = "handler"]
            \/ /\ retries[w] < MaxRetries
               /\ IF GivesUp(retries[w] + 1, ConnectMaxRetries)
                  THEN /\ raised' = [raised EXCEPT ![w] = "connect"]
                       /\ held_at_raise' = [held_at_raise EXCEPT ![w] = Held(w)]
                       /\ cpc' = [cpc EXCEPT ![w] = "handler"]
                       /\ retries' = [retries EXCEPT ![w] = 0]
                       /\ delay' = [delay EXCEPT ![w] = BaseDelay]
                  ELSE /\ cpc' = [cpc EXCEPT ![w] = "retry"]
                       /\ retries' = [retries EXCEPT ![w] = @ + 1]
                       /\ UNCHANGED <<raised, held_at_raise, delay>>
               /\ UNCHANGED <<source_conn, target_conn, active_connections, open_conns,
                              next_conn>>
    /\ UNCHANGED <<closed_conns, last_error>>
    /\ UNCHANGED <<syncVars, gateVars, tcVars, noteVars, lifeVars, cfgVars, cycleVars, sendVars, lockVars, backVars, nameVars>>

\* retry_with_backoff_async between two attempts: the wait of about delay
\* seconds; KeyboardInterrupt when the event is set, which leaves the worker,
\* else the delay is doubled up to max_delay and the next attempt follows
ConnRetry(w) ==
    /\ cpc[w] = "retry"
    /\ IF ShutdownWins(shutdown)
       THEN /\ cpc' = [cpc EXCEPT ![w] = "interrupted"]
            /\ delay' = delay
       ELSE /\ cpc' = [cpc EXCEPT ![w] = "connect"]
            /\ delay' = [delay EXCEPT ![w] = NextDelay(@, ConnectMaxDelay)]
    /\ UNCHANGED retries
    /\ UNCHANGED <<source_conn, target_conn, active_connections, open_conns,
                   closed_conns, next_conn, raised, last_error, held_at_raise>>
    /\ UNCHANGED <<syncVars, gateVars, tcVars, noteVars, lifeVars, cfgVars, cycleVars, sendVars, lockVars, backVars, nameVars>>

\* the rest of the try block: every call returns and the cycle reports
\* healthy (last_error None), or one of them raises
ConnBody(w) ==
    /\ cpc[w] = "body"
    /\ \/ /\ task_status' = [task_status EXCEPT ![w] = "healthy"]
          /\ last_error' = [last_error EXCEPT ![w] = "none"]
          /\ cpc' = [cpc EXCEPT ![w] = "sleep"]
          /\ UNCHANGED <<raised, held_at_raise>>
       \/ /\ \E e \in ErrorChoices : raised' = [raised EXCEPT ![w] = e]
          /\ held_at_raise' = [held_at_raise EXCEPT ![w] = Held(w)]
          /\ cpc' = [cpc EXCEPT ![w] = "handler"]
          /\ UNCHANGED <<task_status, last_error>>
    /\ UNCHANGED <<source_conn, target_conn, active_connections, open_conns,
                   closed_conns, next_conn>>
    /\ UNCHANGED <<shutdown, lpc, lconn, dir_ok, late>>
    /\ UNCHANGED <<syncVars, gateVars, tcVars, noteVars, cfgVars, cycleVars, sendVars, lockVars, backVars, nameVars, tryVars>>

\* "except Exception as e": update_task_status(healthy=False, error=e),
\* close_connection_safe of each connection (unregister, then close, whose
\* own exception is swallowed), and the variables are set to None
ConnHandler(w) ==
    /\ cpc[w] = "handler"
    /\ task_status' = [task_status EXCEPT ![w] = "unhealthy"]
    /\ last_error' = [last_error EXCEPT ![w] = raised[w]]
    /\ active_connections' =
          CloseConnectionSafe(CloseConnectionSafe(active_connections, source_conn[w]),
                              target_conn[w])
    /\ open_conns' = open_conns \ Held(w)
    /\ closed_conns' = closed_conns \cup Held(w)
    /\ source_conn' = [source_conn EXCEPT ![w] = NoneT]
    /\ target_conn' = [target_conn EXCEPT ![w] = NoneT]
    /\ cpc' = [cpc EXCEPT ![w] = "backoff"]
    /\ UNCHANGED <<next_conn, raised, held_at_raise>>
    /\ UNCHANGED <<shutdown, lpc, lconn, dir_ok, late>>
    /\ UNCHANGED <<syncVars, gateVars, tcVars, noteVars, cfgVars, cycleVars, sendVars, lockVars, backVars, nameVars, tryVars>>

\* the end of the wait after a cycle or of the backoff wait: break when the
\* event is set, else the next iteration
ConnWaitEnd(w) ==
    /\ cpc[w] \in {"sleep", "backoff"}
    /\ cpc' = [cpc EXCEPT ![w] = IF ShutdownWins(shutdown) THEN "done" ELSE "top"]
    /\ UNCHANGED <<source_conn, target_conn, active_connections, open_conns,
                   closed_conns, next_conn, raised, last_error, held_at_raise>>
    /\ UNCHANGED <<syncVars, gateVars, tcVars, noteVars, lifeVars, cfgVars, cycleVars, sendVars, lockVars, backVars, nameVars, tryVars>>

InitConnSpec ==
    /\ InitSync({}, SeparateDst, 0)
    /\ InitGate(DefaultMessages, DefaultWindow, DefaultCooldown)
    /\ InitNote(DefaultNotificationTimeout)
    /\ InitTc
    /\ InitLife
    /\ InitExt

\* the workers whose connections are followed: a DB-to-DB job with its two
\* connections and a foreign-DB job with its destination connection
ConnTasks == {"mssql", "firebird"}

NextConn ==
    \/ LifeShutdown
    \/ \E w \in ConnTasks : ConnTop(w)
    \/ \E w \in ConnTasks : ConnOpen(w)
    \/ \E w \in ConnTasks : ConnRetry(w)
    \/ \E w \in ConnTasks : ConnBody(w)
    \/ \E w \in ConnTasks : ConnHandler(w)
    \/ \E w \in ConnTasks : ConnWaitEnd(w)

SpecConn == InitConnSpec /\ [][NextConn]_vars

\* --------------------------------------------------- registry keys
\* update_task_status(task_name, healthy=...) of job w: the entry under the
\* job's task_name is replaced
UpdateTaskStatus(w, h) ==
    /\ w \in NamedJobs
    /\ named_status' = [named_status EXCEPT ![TaskName(w)] = h]
    /\ writers' = [writers EXCEPT ![TaskName(w)] = @ \cup {w}]
    /\ UNCHANGED <<source_table, mssql_table>>
    /\ UNCHANGED <<syncVars, gateVars, tcVars, noteVars, lifeVars, cfgVars, cycleVars, sendVars, lockVars, backVars, connVars, tryVars>>

\* two DB-to-DB jobs and two foreign-DB jobs; source_table of the first and
\* target_table of the second are any of the names
InitNamesSpec ==
    /\ InitSync({}, SeparateDst, 0)
    /\ InitGate(DefaultMessages, DefaultWindow, DefaultCooldown)
    /\ InitNote(DefaultNotificationTimeout)
    /\ InitTc
    /\ InitLife
    /\ InitCfg(FileCheckInterval)
    /\ InitBack("mssql")
    /\ InitConn
    /\ InitLocks
    /\ InitTry
    /\ InitSend
    /\ InitCycle
    /\ \E st \in [NamedJobs -> {NameX, NameY}] :
       \E mt \in [NamedJobs -> {NameX, NameY, NameDboX}] :
          InitNames(st, mt)

NextNames ==
    \E w \in NamedJobs : \E h \in {"healthy", "unhealthy"} : UpdateTaskStatus(w, h)

SpecNames == InitNamesSpec /\ [][NextNames]_vars

\* ------------------------------------------- mutexes and the web thread
\* the mutex under which the workers write a shared structure
LockOf(x) ==
    CASE x = "task_status" -> "task_status_lock"
      [] x = "rectime_cache" -> "rectime_cache_lock"
      [] x = "sent_notifications" -> "notifications_lock"
      [] x = "rate_limiter" -> "rate_limiter_lock"
      [] x = "active_connections" -> "connections_lock"

\* an operation is the sequence of its steps: <<"acquire", lock>> and
\* <<"release", lock>> are the entry and exit of "async with lock",
\* <<"write", x>> and <<"read", x>> touch the structure x, <<"await", c>> is a
\* suspension in the call c
Locked(l, body) == <<<<"acquire", l>>>> \o body \o <<<<"release", l>>>>

\* update_task_status: "async with task_status_lock: task_status[...] = {...}"
UpdateTaskStatusProgram == Locked("task_status_lock", <<<<"write", "task_status">>>>)

\* get_cached_rectime: "async with rectime_cache_lock: rectime_cache.get(...)"
GetCachedRectimeProgram == Locked("rectime_cache_lock", <<<<"read", "rectime_cache">>>>)

\* set_cached_rectime: "async with rectime_cache_lock: rectime_cache[...] = ..."
SetCachedRectimeProgram == Locked("rectime_cache_lock", <<<<"write", "rectime_cache">>>>)

\* register_connection, unregister_connection: "async with connections_lock"
RegisterConnectionProgram ==
    Locked("connections_lock", <<<<"write", "active_connections">>>>)

\* can_send: "async with self.lock" around the whole decision
CanSendProgram == Locked("rate_limiter_lock", <<<<"write", "rate_limiter">>>>)

RecordSentProgramUnderNotifications ==
    Locked("rate_limiter_lock",
           Locked("notifications_lock", <<<<"write", "rate_limiter">>>>))

\* record_sent: "async with self.lock: self.message_times.append(...)"
RecordSentProgram == Locked("rate_limiter_lock", <<<<"write", "rate_limiter">>>>)

\* send_telegram_message, force=False: can_send denies and the call returns;
\* or the post succeeds and record_sent runs; or the post fails
SendTelegramPrograms ==
    { CanSendProgram,
      CanSendProgram \o <<<<"await", "post">>>> \o RecordSentProgram,
      CanSendProgram \o <<<<"await", "post">>>> }

\* check_and_notify_async: _check_and_notify_logic runs under
\* notifications_lock; without a timestamp it does nothing, else it stores the
\* entry and, for a stale table, sends the message and stores the flag
CheckAndNotifyPrograms ==
    { Locked("notifications_lock", << >>),
      Locked("notifications_lock", <<<<"write", "sent_notifications">>>>) }
    \cup { Locked("notifications_lock",
                  <<<<"write", "sent_notifications">>>> \o p
                      \o <<<<"write", "sent_notifications">>>>)
           : p \in SendTelegramPrograms }

\* health: "dict(task_status)" and "len(rectime_cache)", no lock taken
HealthProgram == <<<<"read", "task_status">>, <<"read", "rectime_cache">>>>

\* the operations a worker task calls in its loop, and the one request the
\* web thread serves
ProgramsOf(t) ==
    IF t = "flask" THEN {HealthProgram}
    ELSE {UpdateTaskStatusProgram, GetCachedRectimeProgram, SetCachedRectimeProgram,
          RegisterConnectionProgram} \cup CheckAndNotifyPrograms

\* a thread begins an operation
StartOp(t) ==
    /\ prog[t] = << >>
    /\ \E p \in ProgramsOf(t) : prog' = [prog EXCEPT ![t] = p]
    /\ UNCHANGED lock_owner
    /\ UNCHANGED <<syncVars, gateVars, tcVars, noteVars, lifeVars>>
    /\ UNCHANGED <<cfgVars, cycleVars, sendVars, backVars, connVars, nameVars, tryVars>>

\* a thread takes the next step of its operation; the entry of "async with"
\* waits until the lock is free
OpStep(t) ==
    /\ prog[t] # << >>
    /\ LET i == Head(prog[t])
       IN  CASE i[1] = "acquire" ->
                   /\ lock_owner[i[2]] = "free"
                   /\ lock_owner' = [lock_owner EXCEPT ![i[2]] = t]
             [] i[1] = "release" ->
                   lock_owner' = [lock_owner EXCEPT ![i[2]] = "free"]
             [] OTHER -> lock_owner' = lock_owner
    /\ prog' = [prog EXCEPT ![t] = Tail(@)]
    /\ UNCHANGED <<syncVars, gateVars, tcVars, noteVars, lifeVars>>
    /\ UNCHANGED <<cfgVars, cycleVars, sendVars, backVars, connVars, nameVars, tryVars>>

\* the thread is at the entry of "async with" on a lock that is held
Waits(t) ==
    /\ prog[t] # << >>
    /\ Head(prog[t])[1] = "acquire"
    /\ lock_owner[Head(prog[t])[2]] # "free"

InitLocksSpec ==
    /\ InitSync({}, SeparateDst, 0)
    /\ InitGate(DefaultMessages, DefaultWindow, DefaultCooldown)
    /\ InitNote(DefaultNotificationTimeout)
    /\ InitTc
    /\ InitLife
    /\ InitExt

NextLocks ==
    \/ \E t \in Threads : StartOp(t)
    \/ \E t \in Threads : OpStep(t)

SpecLocks == InitLocksSpec /\ [][NextLocks]_vars

\* --------------------------------------------------------------- /health
\* the entries of task_status
Registry == { w \in Tasks : task_status[w] # "absent" }

\* total_tasks = len(tasks_info)
TotalTasks == Cardinality(Registry)

HealthyTasksAll == Cardinality(Registry)

\* healthy_tasks = sum(1 for t in tasks_info.values() if t.get('healthy', False))
HealthyTasks == Cardinality({ w \in Registry : task_status[w] = "healthy" })

\* health(): overall status and HTTP status
Health ==
    IF TotalTasks = 0 THEN <<"starting", 503>>
    ELSE IF HealthyTasks = TotalTasks THEN <<"healthy", 200>>
    ELSE IF HealthyTasks > 0 THEN <<"degraded", 200>>
    ELSE <<"unhealthy", 503>>

\* ------------------------------------------------------------ properties
\* rows the job committed in its current cycle
CycleInserted(w) == SubSeq(inserted[w], log0[w] + 1, Len(inserted[w]))

\* C1: every row of the source of the DB-to-DB job is eventually in its
\* destination, whatever finite number of cycles abort and of restarts occur
C1_AtLeastOnce ==
    \A r \in TS : (r \in source["m1"]) ~> (r \in dest[dst["m1"]])

\* C2: a value written to the watermark cache is never smaller than the value
\* it replaces
C2_CacheNonDecreasing ==
    [][\A t \in Tables :
          (cache[t] # NoneT /\ cache'[t] # NoneT) => cache'[t] >= cache[t]]_vars

\* C3: a successful DB-to-DB cycle that started with watermark wm commits
\* exactly the source rows with RECTIME > wm, and a non-empty batch leaves the
\* cache at the greatest RECTIME of the committed rows
C3_DeltaCycleExact ==
    \A w \in jobs :
        (kind(w) = "mssql" /\ pc[w] = "sleep") =>
            /\ Range(CycleInserted(w)) = Delta(src0[w], max_rectime[w])
            /\ Len(CycleInserted(w)) = Cardinality(Delta(src0[w], max_rectime[w]))
            /\ Range(CycleInserted(w)) \subseteq dest[dst[w]]
            /\ \A i \in 1..Len(CycleInserted(w)) : CycleInserted(w)[i] > max_rectime[w]
            /\ CycleInserted(w) # << >> =>
                  cache[dst[w]] = Max(Range(CycleInserted(w)))

C3_Witness ==
    \E w \in jobs :
        /\ kind(w) = "mssql" /\ pc[w] = "sleep"
        /\ Len(CycleInserted(w)) >= 2
        /\ max_rectime[w] >= 1
        /\ Delta(src0[w], max_rectime[w]) # src0[w]

\* C4: a DB-to-DB batch that hits a duplicate key still commits the other
\* rows, advances the cache to the greatest RECTIME of the batch and leaves
\* the worker healthy
C4_DuplicateTolerated ==
    \A w \in jobs :
        (kind(w) = "mssql" /\ dupSeen[w]) =>
            /\ pc[w] # "fail"
            /\ status[w] # "unhealthy"
            /\ Range(rows[w]) \subseteq dest[dst[w]]
            /\ cache[dst[w]] = Max(Range(rows[w]))

\* C5: after a completed cycle the cached watermark is at least the RECTIME
\* of every row the worker committed
C5_WatermarkCoversInserted ==
    \A w \in jobs :
        pc[w] = "sleep" =>
            \A i \in 1..Len(inserted[w]) : cache[dst[w]] >= inserted[w][i]

\* C6 (as stated): a cycle whose fetch returned no rows ends with the cache
\* entry it started with
C6_EmptyCycleKeepsCache ==
    \A w \in jobs :
        (pc[w] = "sleep" /\ rows[w] = << >>) => cache[dst[w]] = cache0[w]

\* C6 (amended): a cycle whose fetch returned no rows leaves a present cache
\* entry unchanged; an absent entry stays absent or becomes the non-null
\* MAX(RECTIME) the cycle read from the destination
C6_EmptyCycleKeepsOrFillsCache ==
    \A w \in jobs :
        (pc[w] = "sleep" /\ rows[w] = << >>) =>
            \/ cache[dst[w]] = cache0[w]
            \/ /\ cache0[w] = NoneT
               /\ cache[dst[w]] = max_rectime[w]
               /\ max_rectime[w] \in TS

C6_Witness ==
    \E w \in jobs :
        /\ pc[w] = "sleep" /\ rows[w] = << >>
        /\ cache0[w] = NoneT /\ cache[dst[w]] \in TS

\* C7: every row of a file inside the lookback window is eventually in the
\* destination of the file-ingest worker
C7_FileRowsArrive ==
    \A f \in Files : \A r \in FileTs(f) :
        (r \in frows[f] /\ FileDate(f) >= DateOf(now) - DaysToSearch)
            ~> (r \in dest["T"])

\* C8: every job commits its rows in ascending RECTIME order
C8_InsertsAscending ==
    /\ \A w \in jobs : IsAscending(inserted[w])
    /\ IsAscending(tc_inserted)

\* C9: the watermark of the file-ingest worker never decreases
C9_TcWatermarkMonotone ==
    [][last_db_record' >= last_db_record]_vars

\* C10: in any interval of window_seconds the gate admits at most
\* max_messages non-forced calls
C10_RateBound ==
    \A i \in 1..Len(admitted) :
        Cardinality({ j \in 1..Len(admitted) :
                        /\ admitted[j] >= admitted[i]
                        /\ admitted[j] < admitted[i] + window_seconds })
            <= max_messages

\* C11: after a denial at instant t caused by a full history, every call
\* before t + cooldown_seconds is denied and the first call at or after
\* t + cooldown_seconds is admitted
C11_CooldownThenAdmit ==
    [][(calls' # calls /\ denied_at # NoneT) =>
          IF clock < denied_at + cooldown_seconds
          THEN admitted' = admitted
          ELSE admitted' = Append(admitted, clock)]_vars

C11_Witness ==
    /\ released # NoneT /\ released >= 2
    /\ denied_at = NoneT
    /\ Len(admitted) >= 2

\* C12: while the timestamp observed for a table stays the same, at most one
\* staleness message is handed to send_telegram_message, however many checks
\* are made
C12_OneAlertPerStaleTime ==
    \A t \in NoteTables : run_handed[t] <= 1

C12_Witness ==
    \E t \in NoteTables :
        /\ run_checks[t] >= 3 /\ run_handed[t] = 1
        /\ sent_notifications[t] = <<TRUE, run_obs[t]>>

\* C13: a check that observes a timestamp greater than the stored one leaves
\* the entry at (False, observed); a check that observes no greater timestamp
\* leaves a true alert-sent flag true; nothing else clears the flag
C13_FlagResetOnAdvance ==
    [][\A t \in NoteTables :
        LET e == sent_notifications[t]
            checked == check_parity' # check_parity /\ note_table' = t
                       /\ note_obs' # NoneT
        IN  /\ (checked /\ e # NoEntry /\ note_obs' > e[2]) =>
                   sent_notifications'[t] = <<FALSE, note_obs'>>
            /\ (checked /\ e[1] /\ note_obs' <= e[2]) => sent_notifications'[t][1]
            /\ (e[1] /\ ~sent_notifications'[t][1]) => (checked /\ note_obs' > e[2])
      ]_vars

C13_Witness ==
    \E t \in NoteTables :
        /\ note_pc = "idle" /\ calls >= 1
        /\ \A u \in NoteTables \ {t} : run_obs[u] = NoneT
        /\ sent_notifications[t] = <<FALSE, run_obs[t]>>
        /\ run_handed[t] = 0

\* C17: the task inside check_and_notify_async never holds two of the shared
\* mutexes at the same time
C17_OneLockAtATime ==
    Cardinality(held) <= 1

\* C14: while the shutdown event is not set no worker loop is left, and after
\* an exception in a cycle the worker starts another iteration
C14_WorkersNeverDie ==
    \A w \in Tasks :
        /\ [](~shutdown => lpc[w] \notin {"done", "interrupted"})
        /\ (lpc[w] = "handler") ~> (shutdown \/ lpc[w] \in {"connect", "cycle"})

C14_Witness ==
    /\ ~shutdown
    /\ task_status["mssql"] = "unhealthy" /\ lpc["mssql"] = "cycle"
    /\ task_status["firebird"] = "unhealthy" /\ lpc["firebird"] = "connect"
    /\ task_status["tc2"] = "unhealthy" /\ lpc["tc2"] = "cycle" /\ dir_ok

\* C15: no wait of a worker outlasts the setting of the shutdown event
C15_WaitsEndOnShutdown ==
    \A w \in Tasks : ~late[w]

\* C16: once the shutdown event is set every worker terminates
C16_ShutdownTerminates ==
    \A w \in Tasks : shutdown ~> (lpc[w] \in {"done", "interrupted"})

C16_Witness ==
    /\ shutdown
    /\ lpc["mssql"] = "interrupted"
    /\ lpc["firebird"] = "done" /\ task_status["firebird"] = "unhealthy"
    /\ lpc["tc2"] = "done" /\ late["tc2"]

\* C18: /health answers starting/503 for an empty registry, healthy/200 when
\* every entry is healthy, degraded/200 when some but not all are, and
\* unhealthy/503 when the registry is not empty and no entry is healthy
C18_HealthStatus ==
    LET some == \E w \in Registry : task_status[w] = "healthy"
        all == \A w \in Registry : task_status[w] = "healthy"
    IN  /\ Registry = {} => Health = <<"starting", 503>>
        /\ (Registry # {} /\ all) => Health = <<"healthy", 200>>
        /\ (some /\ ~all) => Health = <<"degraded", 200>>
        /\ (Registry # {} /\ ~some) => Health = <<"unhealthy", 503>>

C18_Witness ==
    /\ Registry = Tasks
    /\ task_status["mssql"] = "healthy"
    /\ task_status["firebird"] = "unhealthy"
    /\ Health = <<"degraded", 200>>

\* C19: in the foreign-DB and the file-ingest insert path, a batch that hits
\* a duplicate key leaves the destination with the rows that inserting the
\* batch one row at a time, duplicates rejected, would leave
C19_FallbackEqualsPerRow ==
    [][/\ \A w \in jobs :
            (kind(w) = "firebird" /\ pc[w] = "insert" /\ dupSeen'[w]) =>
                dest'[dst[w]] = InsertEach(dest[dst[w]], rows[w])
       /\ (/\ tc_pc = "files" /\ files_to_process # << >>
           /\ files_to_process' # files_to_process
           /\ tc_faults' = tc_faults
           /\ Range(TcFrame(Head(files_to_process))) \cap dest["T"] # {}) =>
              dest'["T"] = InsertEach(dest["T"], TcFrame(Head(files_to_process)))
      ]_vars

C19_Witness ==
    /\ dupSeen["f1"] /\ pc["f1"] = "sleep"
    /\ inserted["f1"] # << >> /\ Len(inserted["f1"]) < Len(rows["f1"])
    /\ files_to_process = << >>
    /\ tc_inserted # << >> /\ Range(tc_inserted) # frows["old"]

\* C20: after the same cycles, source rows and out-of-band writes, a worker
\* that takes its watermark from the cache and one that reads MAX(RECTIME) in
\* every cycle have the same destination rows and the same health
C20_CacheIndependent ==
    (\A w \in jobs : pc[w] \in {"sleep", "fail"}) =>
        \A a, b \in jobs :
            /\ dest[dst[a]] = dest[dst[b]]
            /\ pc[a] = pc[b]

\* C21: whatever file_check_interval is configured, a scan does not select a
\* workbook of the current day whose last check is less than five minutes
\* old, modified or not
C21_RecentlyCheckedSkipped ==
    tc_pc = "files" =>
        \A f \in Files :
            ( /\ FileDate(f) = DateOf(now)
              /\ files_last_check[f] # NoneT
              /\ now - files_last_check[f] < MinRecheck )
            => f \notin Range(files_to_process)

\* C28: a workbook dated today and inside the lookback window is selected by
\* the scan exactly when it was never checked, or file_check_interval seconds
\* have passed since its last check, or it was modified after the watermark
\* and 300 seconds have passed since its last check
C28_TodaySelection ==
    tc_pc = "files" =>
        \A f \in Files :
            ( /\ FileDate(f) = DateOf(now)
              /\ FileDate(f) >= DateOf(now) - DaysToSearch )
            => ( f \in Range(files_to_process)
                 <=> \/ files_last_check[f] = NoneT
                     \/ /\ files_last_check[f] # NoneT
                        /\ now - files_last_check[f] >= file_check_interval
                     \/ /\ files_last_check[f] # NoneT
                        /\ fmtime[f] > last_db_record
                        /\ now - files_last_check[f] >= MinRecheck )

\* a scan selected today's workbook only because it was modified after the
\* watermark and checked five minutes ago, and another scan skipped it
C28_Witness ==
    /\ tc_pc = "files"
    /\ FileDate("cur") = DateOf(now)
    /\ files_last_check["cur"] = now - MinRecheck
    /\ file_check_interval > MinRecheck
    /\ fmtime["cur"] > last_db_record
    /\ "cur" \in Range(files_to_process)

\* C29: with a watermark, a workbook of another day is selected exactly when
\* its date is inside the lookback window and either after the watermark's
\* date, or equal to it with a modification less than two hours old
C29_PastSelection ==
    tc_pc = "files" =>
        \A f \in Files :
            ( FileDate(f) # DateOf(now) /\ last_db_record # NoneT )
            => ( f \in Range(files_to_process)
                 <=> /\ FileDate(f) >= DateOf(now) - DaysToSearch
                     /\ \/ FileDate(f) > DateOf(last_db_record)
                        \/ /\ FileDate(f) = DateOf(last_db_record)
                           /\ now - fmtime[f] < TwoHours )

\* a scan took the workbook of the watermark's day because it was modified
\* within two hours, and left out a workbook older than the lookback window
C29_Witness ==
    /\ tc_pc = "files"
    /\ FileDate("cur") # DateOf(now)
    /\ FileDate("cur") = DateOf(last_db_record)
    /\ now - fmtime["cur"] < TwoHours
    /\ "cur" \in Range(files_to_process)
    /\ FileDate("old") < DateOf(now) - DaysToSearch
    /\ "old" \notin Range(files_to_process)

\* C22: while the watched directory is unavailable, a cycle of the file-ingest
\* worker selects and commits nothing and leaves a healthy TaskStatus healthy
C22_ShareDownStaysHealthy ==
    [][ ( /\ ~share_up /\ ~share_up'
          /\ tc_pc = "start" /\ tc_conn
          /\ tc_status = "healthy" )
        => ( /\ tc_status' = "healthy"
             /\ tc_inserted' = tc_inserted
             /\ tc_pc' # "files" ) ]_vars

\* C23: the backoff wait after the k-th failed cycle in a row lasts
\* min(2^(k-1), 60) seconds; in particular the first failed cycle after a
\* successful one waits 1 second
C23_BackoffDelay ==
    \A w \in Tasks :
        waited[w] # NoneT =>
            waited[w] = (IF 2^(failed_run[w] - 1) < 60 THEN 2^(failed_run[w] - 1) ELSE 60)

\* a worker that failed, completed a cycle and failed again is in the backoff
\* wait of its seventh failed cycle in a row, where the doubling meets the cap
C23_Witness ==
    \E w \in Tasks :
        /\ bpc[w] = "backoff"
        /\ recovered[w]
        /\ task_status[w] = "unhealthy"
        /\ failed_run[w] = 7
        /\ waited[w] = MaxBackoff

\* C24: when a call of a DB-to-DB cycle raises, the handler marks the worker
\* unhealthy with that error and closes and unregisters the source and the
\* destination connection; the cycle body only ever runs on two registered
\* connections that were never closed, so the next cycle runs on new ones
C24_FailureDiscardsConnections ==
    /\ [][ (cpc["mssql"] = "handler" /\ cpc'["mssql"] # "handler")
           => ( /\ task_status'["mssql"] = "unhealthy"
                /\ last_error'["mssql"] = raised["mssql"]
                /\ held_at_raise["mssql"] \cap active_connections' = {}
                /\ held_at_raise["mssql"] \cap open_conns' = {}
                /\ Held("mssql")' = {} ) ]_vars
    /\ [] ( cpc["mssql"] = "body"
            => ( /\ Cardinality(Held("mssql")) = 2
                 /\ Held("mssql") \cap closed_conns = {}
                 /\ Held("mssql") \cap held_at_raise["mssql"] = {}
                 /\ Held("mssql") \subseteq active_connections \cap open_conns ) )

\* after a failed cycle that held both connections, the DB-to-DB worker is in
\* the body of its next cycle with two other connections
C24_Witness ==
    /\ cpc["mssql"] = "body"
    /\ task_status["mssql"] = "unhealthy"
    /\ last_error["mssql"] # "none"
    /\ Cardinality(held_at_raise["mssql"]) = 2
    /\ held_at_raise["mssql"] \subseteq closed_conns
    /\ Cardinality(Held("mssql")) = 2

\* C25: a cycle of the foreign-DB worker whose fetch failed goes to the
\* handler (unhealthy, backoff); it does not go on to report healthy
C25_FetchFailureFailsCycle ==
    [][ \A w \in jobs :
          ( /\ kind(w) = "firebird"
            /\ pc[w] = "fetch" /\ pc'[w] # "fetch"
            /\ faults' = faults + 1 )
          => pc'[w] = "fail" ]_vars

\* C27: a batch insert ends with the whole batch committed, or with the
\* batch rolled back and every row of it attempted on its own, after which
\* each row of the batch is in the destination
C27_BatchCommittedOrRetried ==
    [][ \A w \in jobs :
          ( /\ pc[w] = "insert" /\ pc'[w] # "insert"
            /\ rows[w] # << >>
            /\ restarts' = restarts )
          => Range(rows[w]) \subseteq dest'[dst[w]] ]_vars

\* C26: the staleness check of a cycle is made on the latest timestamp of
\* the upstream source, so an alert is raised only when that timestamp is
\* older than notification_timeout, whatever the destination holds
C26_AlertOnUpstreamTime ==
    [][ \A w \in jobs :
          source[w] # {} =>
            /\ (check_parity' # check_parity) => note_obs' = Max(source[w])
            /\ (note_pc = "idle" /\ note_pc' = "can_send") => Stale(Max(source[w])) ]_vars

\* C30: for any configured jobs, no registry key is written by two distinct
\* workers, so the registry has one entry per worker that reported
C30_OneKeyPerWorker ==
    /\ \A k \in Keys : Cardinality(writers[k]) <= 1
    /\ Cardinality({ k \in Keys : named_status[k] # "absent" })
         = Cardinality(UNION { writers[k] : k \in Keys })

\* C31: a worker's last_sync field holds the instant of its most recent
\* successful cycle: a failed cycle that follows a successful one leaves
\* last_sync at that instant.
C31_LastSyncKept ==
    [][\A w \in Tasks :
        (bpc[w] = "handler" /\ bpc'[w] = "backoff" /\ synced_at[w] # NoneT)
            => last_sync'[w] = synced_at[w]]_vars

\* C32: the /health handler reads the task status registry and the watermark
\* cache only while it holds the mutex under which the workers write them, so
\* no worker is inside its write when the handler reads.
C32_HealthReadsUnderLock ==
    [][(prog["flask"] # << >> /\ Head(prog["flask"])[1] = "read"
            /\ prog'["flask"] = Tail(prog["flask"]))
        => lock_owner[LockOf(Head(prog["flask"])[2])] = "flask"]_vars

\* C36: lock acquisition never deadlocks: in no reachable state is there a
\* set of threads each of which waits for a mutex held by a thread of the set.
C36_NoLockDeadlock ==
    \A S \in SUBSET Threads :
        S # {} => \E t \in S : ~(Waits(t) /\ lock_owner[Head(prog[t])[2]] \in S)

\* one task is suspended in the post with notifications_lock held, after it
\* took and released the limiter's lock inside it, and the two other tasks
\* wait for notifications_lock
C36_Witness ==
    \E a \in Tasks :
        /\ lock_owner["notifications_lock"] = a
        /\ prog[a] # << >> /\ Head(prog[a]) = <<"await", "post">>
        /\ \A b \in Tasks \ {a} :
              Waits(b) /\ Head(prog[b])[2] = "notifications_lock"

\* C34: connection failures inside connect_to_mssql_async are retried without
\* bound with exponential backoff and never surfaced: no failure of a
\* connection attempt is handled by the worker loop's handler, the wait before
\* retry n+1 is 2^(n-1) seconds up to 60, and while a worker is retrying and
\* shutdown is not requested it stays in the retry and its TaskStatus entry is
\* not modified.
C34_ConnectRetriedNotSurfaced ==
    /\ [](\A w \in ConnTasks :
            /\ raised[w] # "connect"
            /\ cpc[w] = "retry" =>
                  /\ retries[w] >= 1
                  /\ delay[w] = Min({2 ^ (retries[w] - 1), ConnectMaxDelay}))
    /\ [][\A w \in ConnTasks :
            (cpc[w] = "retry" /\ ~shutdown) =>
                /\ cpc'[w] \in {"retry", "connect"}
                /\ task_status'[w] = task_status[w]
                /\ last_error'[w] = last_error[w]]_vars

\* a worker whose cycle failed on a timeout and closed its connections waits
\* for the next attempt after MaxRetries failed ones; its entry still shows
\* the error of the cycle
C34_Witness ==
    \E w \in ConnTasks :
        /\ cpc[w] = "retry" /\ ~shutdown
        /\ retries[w] = MaxRetries
        /\ delay[w] = 2 ^ (MaxRetries - 1)
        /\ task_status[w] = "unhealthy" /\ last_error[w] = "timeout"
        /\ Held(w) = {}

\* C33: send_telegram_message called with force=True attempts the send
\* whatever the state of the gate and leaves the gate's cooldown deadline and
\* suppressed count unchanged.
C33_ForceBypassesGate ==
    [][(calls' = calls + 1 /\ forced')
        => /\ posting'
           /\ cooldown_until' = cooldown_until
           /\ suppressed_count' = suppressed_count]_vars

\* a forced call is in its HTTP request while the cooldown is active with
\* suppressed messages and the history is full
C33_Witness ==
    /\ forced /\ posting /\ outcome = "posting"
    /\ InCooldown /\ suppressed_count >= 1
    /\ Len(message_times) >= max_messages

\* C35: the suppressed count is zero when no cooldown deadline is set; when a
\* deadline is set it equals the number of non-forced can_send calls denied
\* since that cooldown began, at least 1; and the first can_send at or after
\* the deadline resets the deadline, the count and the send history together.
C35_SuppressedCount ==
    /\ [](/\ cooldown_until = NoneT => suppressed_count = 0
          /\ cooldown_until # NoneT =>
                suppressed_count = denied_since /\ suppressed_count >= 1)
    /\ [][(calls' = calls + 1 /\ ~forced' /\ CooldownOver)
            => /\ cooldown_until' = NoneT
               /\ suppressed_count' = 0
               /\ message_times' = << >>]_vars

\* a cooldown with suppressed messages ended with a reset, and a call denied
\* later began the cooldown in force, counted from 1 again
C35_Witness ==
    /\ released # NoneT /\ released >= 1
    /\ cooldown_until # NoneT
    /\ suppressed_count = 1 /\ denied_since = 1

\* C38: a table's alert-sent flag becomes true only after a staleness message
\* for that table was admitted by the gate and posted successfully; a message
\* suppressed by the gate or failed in transit leaves the flag false.
C38_FlagOnlyAfterPost ==
    [][\A t \in NoteTables :
        (/\ ~(sent_notifications[t] # NoEntry /\ sent_notifications[t][1])
         /\ sent_notifications'[t] # NoEntry /\ sent_notifications'[t][1])
            => outcome = "sent"]_vars

\* C37: if reading MAX(RECTIME) from the destination raises an error, the
\* worker does not go on to fetch and insert with the 1900-01-01 sentinel as
\* watermark: a cycle continues with the sentinel only when the destination
\* table is empty.
C37_SentinelOnlyWhenEmpty ==
    [][\A w \in Workers :
        (pc[w] = "query_max" /\ pc'[w] = "fetch" /\ max_rectime'[w] = Sentinel)
            => dest[dst[w]] = {}]_vars

\* C39: when a worker exits because of shutdown, every connection it opened
\* has been closed and removed from the registry, so the registry is empty
\* once all workers have exited (exits through "break" are looked at).
C39_RegistryEmptyAfterExit ==
    /\ \A w \in ConnTasks :
          cpc[w] = "done" => Held(w) \cap (active_connections \cup open_conns) = {}
    /\ (\A w \in ConnTasks : cpc[w] = "done") => active_connections = {}

\* C40: within one file-ingest cycle every selected file is filtered against
\* the watermark held at the start of the cycle: the watermark does not move
\* between two files, and the frame of each file still to be processed keeps
\* every row above that watermark, whatever was committed from earlier files.
C40_CycleWatermarkFixed ==
    tc_pc = "files" =>
        /\ last_db_record = wm0
        /\ \A i \in 1..Len(files_to_process) :
              Range(TcFrame(files_to_process[i]))
                  = { r \in frows[files_to_process[i]] : wm0 = NoneT \/ r > wm0 }

\* rows of the first file of the cycle were committed above the watermark, and
\* the file processed next holds a row between the watermark and those rows,
\* which its frame keeps
C40_Witness ==
    /\ tc_pc = "files" /\ files_to_process # << >>
    /\ max_processed_time # NoneT /\ wm0 # NoneT /\ max_processed_time > wm0
    /\ \E r \in frows[Head(files_to_process)] :
          /\ r > wm0 /\ r < max_processed_time
          /\ \E k \in 1..Len(tc_inserted) : tc_inserted[k] > r
          /\ r \in Range(TcFrame(Head(files_to_process)))

====
